---- MODULE Spec2Model ----
(***************************************************************************)
(* Verification model of the sndv-kv storage engine: write-ahead log,      *)
(* memtable rotation, flush, L0->L1 compaction and the point read path.    *)
(* Keys and values are byte strings (sequences of 0..255).                 *)
(***************************************************************************)
EXTENDS Integers, Sequences, FiniteSets, Bags, TLC

(***************************************************************************)
(* Bounds of the model.                                                    *)
(***************************************************************************)
MaxRecords == 2      \* records a WAL file of the codec harness may hold
MaxBatchLen == 2     \* entries per WriteBatch call in the codec harness
MaxTail == 3         \* length of the garbage appended to a WAL file
MaxTables == 3       \* level-0 tables handed to one merge

\* Largest integer TLC represents; decoded numbers at or above 2^31
\* are clamped to it.  Every file of the model is far shorter, so a read of
\* that many bytes fails exactly as the read of the true length does.
MaxInt31 == 127 * 16777216 + 16777215

(***************************************************************************)
(* common.Entry                                                            *)
(***************************************************************************)
Entry(k, v, exp, del) ==
    [Key |-> k, Value |-> v, ExpiryTimestamp |-> exp, IsDeleted |-> del]

(***************************************************************************)
(* encoding/binary little endian, as used by DiskWAL                       *)
(***************************************************************************)
RECURSIVE LittleEndianBytes(_, _)
LittleEndianBytes(x, n) ==
    IF n = 0 THEN <<>> ELSE <<x % 256>> \o LittleEndianBytes(x \div 256, n - 1)

PutUint32(n) == LittleEndianBytes(n, 4)

\* uint64(e.ExpiryTimestamp): two's complement, low byte first
PutUint64(x) == LittleEndianBytes(x, 8)

Uint32(b) ==
    IF b[4] >= 128 THEN MaxInt31
    ELSE b[1] + 256 * b[2] + 65536 * b[3] + 16777216 * b[4]

\* int64(binary.LittleEndian.Uint64(meta[:8]))
Int64(b) ==
    LET hiZero == \A i \in 5..8 : b[i] = 0
        hiOnes == \A i \in 5..8 : b[i] = 255
    IN  IF hiZero /\ b[4] < 128 THEN Uint32(SubSeq(b, 1, 4))
        ELSE IF hiOnes /\ b[4] >= 128
             THEN -(1 + (255 - b[1]) + 256 * (255 - b[2]) + 65536 * (255 - b[3])
                      + 16777216 * (255 - b[4]))
        ELSE IF b[8] >= 128 THEN -MaxInt31 ELSE MaxInt31

\* a record laid out as the SST writer does: both lengths, the expiry and
\* the flag first, then key and value
EncodeEntryHeaderFirst(e) ==
    PutUint32(Len(e.Key)) \o PutUint32(Len(e.Value))
        \o PutUint64(e.ExpiryTimestamp) \o << IF e.IsDeleted THEN 1 ELSE 0 >>
        \o e.Key \o e.Value

(***************************************************************************)
(* DiskWAL.WriteBatch: the buffer built for one batch                      *)
(***************************************************************************)
EncodeEntry(e) ==
    PutUint32(Len(e.Key)) \o e.Key \o PutUint32(Len(e.Value)) \o e.Value
        \o PutUint64(e.ExpiryTimestamp) \o << IF e.IsDeleted THEN 1 ELSE 0 >>

RECURSIVE EncodeBatch(_)
EncodeBatch(entries) ==
    IF entries = <<>> THEN <<>>
    ELSE EncodeEntry(Head(entries)) \o EncodeBatch(Tail(entries))

\* a ReadFull that reports every short read as a clean end of file
ReadFullShortIsEOF(file, off, n) ==
    IF n = 0 THEN [err |-> "nil", data |-> <<>>]
    ELSE IF Len(file) - off >= n
         THEN [err |-> "nil", data |-> SubSeq(file, off + 1, off + n)]
    ELSE [err |-> "EOF", data |-> <<>>]

(***************************************************************************)
(* io.ReadFull on the rest of a file: n bytes from offset off (0-based).   *)
(***************************************************************************)
ReadFull(file, off, n) ==
    IF n = 0 THEN [err |-> "nil", data |-> <<>>]
    ELSE IF Len(file) - off >= n
         THEN [err |-> "nil", data |-> SubSeq(file, off + 1, off + n)]
    ELSE IF Len(file) - off = 0 THEN [err |-> "EOF", data |-> <<>>]
    ELSE [err |-> "ErrUnexpectedEOF", data |-> <<>>]

(***************************************************************************)
(* DiskWAL.Replay: the entries handed to the callback, in order, and the   *)
(* error returned.                                                         *)
(***************************************************************************)
RECURSIVE ReplayFrom(_, _, _)
ReplayFrom(file, off, visited) ==
    LET h1 == ReadFull(file, off, 4) IN
    IF h1.err = "EOF" THEN [visited |-> visited, err |-> "nil"]
    ELSE IF h1.err # "nil" THEN [visited |-> visited, err |-> h1.err]
    ELSE
    LET kLen == Uint32(h1.data)
        key == ReadFull(file, off + 4, kLen) IN
    IF key.err # "nil" THEN [visited |-> visited, err |-> key.err]
    ELSE
    LET h2 == ReadFull(file, off + 4 + kLen, 4) IN
    IF h2.err # "nil" THEN [visited |-> visited, err |-> h2.err]
    ELSE
    LET vLen == Uint32(h2.data)
        val == ReadFull(file, off + 8 + kLen, vLen) IN
    IF val.err # "nil" THEN [visited |-> visited, err |-> val.err]
    ELSE
    LET meta == ReadFull(file, off + 8 + kLen + vLen, 9) IN
    IF meta.err # "nil" THEN [visited |-> visited, err |-> meta.err]
    ELSE
    ReplayFrom(file, off + 17 + kLen + vLen,
               Append(visited, Entry(key.data, val.data,
                                     Int64(SubSeq(meta.data, 1, 8)),
                                     meta.data[9] = 1)))

Replay(file) == ReplayFrom(file, 0, <<>>)

(***************************************************************************)
(* Go string comparison a < b: bytewise lexicographic.                     *)
(***************************************************************************)
RECURSIVE StringLess(_, _)
StringLess(a, b) ==
    IF b = <<>> THEN FALSE
    ELSE IF a = <<>> THEN TRUE
    ELSE IF Head(a) # Head(b) THEN Head(a) < Head(b)
    ELSE StringLess(Tail(a), Tail(b))

(***************************************************************************)
(* MergeHeap under container/heap.  Indices are 0-based as in the code.    *)
(***************************************************************************)
MergeItem(e, src) == [Entry |-> e, SourceID |-> src]

HeapLess(h, i, j) == StringLess(h[i + 1].Entry.Key, h[j + 1].Entry.Key)

HeapSwap(h, i, j) == [h EXCEPT ![i + 1] = h[j + 1], ![j + 1] = h[i + 1]]

RECURSIVE HeapUp(_, _)
HeapUp(h, j) ==
    LET i == IF j = 0 THEN 0 ELSE (j - 1) \div 2 IN
    IF i = j \/ ~HeapLess(h, j, i) THEN h
    ELSE HeapUp(HeapSwap(h, i, j), i)

RECURSIVE HeapDown(_, _, _)
HeapDown(h, i, n) ==
    LET j1 == 2 * i + 1 IN
    IF j1 >= n THEN h
    ELSE LET j == IF j1 + 1 < n /\ HeapLess(h, j1 + 1, j1) THEN j1 + 1 ELSE j1 IN
         IF ~HeapLess(h, j, i) THEN h
         ELSE HeapDown(HeapSwap(h, i, j), j, n)

\* heap.Push(mh, x)
HeapPush(h, x) == HeapUp(Append(h, x), Len(h))

\* heap.Pop(mh): the item returned and the heap left
HeapPop(h) ==
    LET n == Len(h) - 1
        d == HeapDown(HeapSwap(h, 0, n), 0, n)
    IN  [item |-> d[n + 1], heap |-> SubSeq(d, 1, n)]

(***************************************************************************)
(* mergeIterators.  files[i+1] is the record sequence reader i yields;     *)
(* pos[i+1] counts the records reader i has returned so far.               *)
(***************************************************************************)
RECURSIVE MergePrime(_, _, _, _)
MergePrime(files, i, mh, pos) ==
    IF i >= Len(files) THEN [mh |-> mh, pos |-> pos]
    ELSE IF Len(files[i + 1]) > 0
         THEN MergePrime(files, i + 1,
                         HeapPush(mh, MergeItem(files[i + 1][1], i)),
                         [pos EXCEPT ![i + 1] = 1])
    ELSE MergePrime(files, i + 1, mh, pos)

RECURSIVE MergeLoop(_, _, _, _, _)
MergeLoop(files, mh, pos, entries, lastKey) ==
    IF Len(mh) = 0 THEN entries
    ELSE
    LET p == HeapPop(mh)
        top == p.item
        src == top.SourceID
        same == Len(entries) > 0 /\ lastKey = top.Entry.Key
        entries2 == IF same THEN [entries EXCEPT ![Len(entries)] = top.Entry]
                    ELSE Append(entries, top.Entry)
        lastKey2 == IF same THEN lastKey ELSE top.Entry.Key
    IN  IF pos[src + 1] < Len(files[src + 1])
        THEN MergeLoop(files,
                       HeapPush(p.heap, MergeItem(files[src + 1][pos[src + 1] + 1], src)),
                       [pos EXCEPT ![src + 1] = @ + 1], entries2, lastKey2)
        ELSE MergeLoop(files, p.heap, pos, entries2, lastKey2)

mergeIterators(files) ==
    LET primed == MergePrime(files, 0, <<>>, [i \in 1..Len(files) |-> 0])
    IN  MergeLoop(files, primed.mh, primed.pos, <<>>, <<>>)

(***************************************************************************)
(* SST files byte for byte.  A record is a 17-byte header (key length,     *)
(* value length, expiry, tombstone flag), the key and the value.           *)
(***************************************************************************)
SstHeader(e) ==
    PutUint32(Len(e.Key)) \o PutUint32(Len(e.Value))
        \o PutUint64(e.ExpiryTimestamp) \o << IF e.IsDeleted THEN 1 ELSE 0 >>

\* the offset advance that leaves out the value
RecordSpanNoValue(e) == 17 + Len(e.Key)

\* offset += int64(17 + kLen + vLen)
RecordSpan(e) == 17 + Len(e.Key) + Len(e.Value)

\* the loop of WriteSortedStringTableToDisk from entry i on (1-based)
RECURSIVE WriteFrom(_, _, _, _, _)
WriteFrom(entries, i, offset, file, index) ==
    IF i > Len(entries) THEN [file |-> file, index |-> index]
    ELSE LET e == entries[i]
         IN  WriteFrom(entries, i + 1, offset + RecordSpan(e),
                       file \o SstHeader(e) \o e.Key \o e.Value,
                       [k \in DOMAIN index \cup {e.Key} |->
                           IF k = e.Key THEN offset ELSE index[k]])

\* WriteSortedStringTableToDisk with a nil bloom filter: the bytes of the file
\* and the metadata returned; fileID is the id parsed from the file name
WriteSortedStringTableToDisk(entries, fileID, level) ==
    LET w == WriteFrom(entries, 1, 0, <<>>, [k \in {} |-> 0])
    IN  [file |-> w.file,
         meta |-> [Level |-> level, FileID |-> fileID, Index |-> w.index,
                   MinKey |-> IF entries = <<>> THEN <<>> ELSE entries[1].Key,
                   MaxKey |-> IF entries = <<>> THEN <<>>
                              ELSE entries[Len(entries)].Key]]

\* a buffer of n zero bytes after io.ReadFull at offset off, its error
\* ignored: the bytes the file still has, then zeros
ReadInto(file, off, n) ==
    [i \in 1..n |-> IF off + i <= Len(file) THEN file[off + i] ELSE 0]

\* the file offset after reading up to n bytes at off
Advance(file, off, n) ==
    IF off + n <= Len(file) THEN off + n
    ELSE IF off <= Len(file) THEN Len(file) ELSE off

\* SSTableReader.Next at reader offset off: the entry, ok, the offset after
SSTableReaderNext(file, off) ==
    LET h == ReadFull(file, off, 17) IN
    IF h.err # "nil"
    THEN [ok |-> FALSE, entry |-> Entry(<<>>, <<>>, 0, FALSE),
          off |-> Advance(file, off, 17)]
    ELSE LET kLen == Uint32(SubSeq(h.data, 1, 4))
             vLen == Uint32(SubSeq(h.data, 5, 8))
             keyOff == off + 17
             valOff == Advance(file, keyOff, kLen)
         IN  [ok |-> TRUE,
              entry |-> Entry(ReadInto(file, keyOff, kLen),
                              ReadInto(file, valOff, vLen),
                              Int64(SubSeq(h.data, 9, 16)),
                              h.data[17] = 1),
              off |-> Advance(file, valOff, vLen)]

\* FindInSSTable on a file that opens: the index gives the offset, the header
\* is read there, the key is skipped, the value read
FindInSSTableAt(meta, file, key) ==
    IF key \notin DOMAIN meta.Index
    THEN [found |-> FALSE, entry |-> Entry(<<>>, <<>>, 0, FALSE)]
    ELSE LET offset == meta.Index[key]
             header == ReadInto(file, offset, 17)
             kLen == Uint32(SubSeq(header, 1, 4))
             vLen == Uint32(SubSeq(header, 5, 8))
         IN  [found |-> TRUE,
              entry |-> Entry(key,
                              ReadInto(file, Advance(file, offset, 17) + kLen, vLen),
                              Int64(SubSeq(header, 9, 16)),
                              header[17] = 1)]

(***************************************************************************)
(* hash/fnv New32a.  The 32-bit state is kept as two 16-bit halves so that *)
(* the multiplication by the FNV prime 0x01000193 stays exact.             *)
(***************************************************************************)
RECURSIVE Xor(_, _, _)
Xor(a, b, bits) ==
    IF bits = 0 THEN 0
    ELSE (((a % 2) + (b % 2)) % 2) + 2 * Xor(a \div 2, b \div 2, bits - 1)

FnvOffset == [hi |-> 33052, lo |-> 40389]

FnvStep(h, b) ==
    LET lo == (h.lo \div 256) * 256 + Xor(h.lo % 256, b, 8)
        pLo == lo * 403
        pHi == h.hi * 403 + (pLo \div 65536) + (lo % 256) * 256
    IN  [hi |-> pHi % 65536, lo |-> pLo % 65536]

RECURSIVE Fnv32a(_, _)
Fnv32a(h, key) ==
    IF key = <<>> THEN h ELSE Fnv32a(FnvStep(h, Head(key)), Tail(key))

\* int(h.Sum32()) % numShards
ShardOf(key, n) ==
    LET h == Fnv32a(FnvOffset, key)
    IN  ((h.hi % n) * (65536 % n) + h.lo) % n

(***************************************************************************)
(* hash/crc32 ChecksumIEEE: the byte-at-a-time table form of the reflected *)
(* polynomial 0xEDB88320, on a 32-bit state kept as two 16-bit halves.     *)
(* IEEETableHi[i + 1] and IEEETableLo[i + 1] are the halves of entry i.    *)
(***************************************************************************)
\* XOR of two 16-bit numbers, bit by bit
Xor16(a, b) ==
      ((a + b) % 2) + 2 * (((a \div 2) + (b \div 2)) % 2)
    + 4 * (((a \div 4) + (b \div 4)) % 2) + 8 * (((a \div 8) + (b \div 8)) % 2)
    + 16 * (((a \div 16) + (b \div 16)) % 2) + 32 * (((a \div 32) + (b \div 32)) % 2)
    + 64 * (((a \div 64) + (b \div 64)) % 2) + 128 * (((a \div 128) + (b \div 128)) % 2)
    + 256 * (((a \div 256) + (b \div 256)) % 2) + 512 * (((a \div 512) + (b \div 512)) % 2)
    + 1024 * (((a \div 1024) + (b \div 1024)) % 2) + 2048 * (((a \div 2048) + (b \div 2048)) % 2)
    + 4096 * (((a \div 4096) + (b \div 4096)) % 2) + 8192 * (((a \div 8192) + (b \div 8192)) % 2)
    + 16384 * (((a \div 16384) + (b \div 16384)) % 2) + 32768 * (((a \div 32768) + (b \div 32768)) % 2)

Xor32(a, b) == [hi |-> Xor16(a.hi, b.hi), lo |-> Xor16(a.lo, b.lo)]

AllOnes32 == [hi |-> 65535, lo |-> 65535]

IEEETableHi ==
    <<0, 30471, 60942, 39177, 1901, 28778, 59747, 40548, 3803, 31196, 57557, 38866,
      2486, 32433, 59320, 37055, 7607, 27312, 62393, 33982, 6874, 28125, 62676, 33747,
      4972, 25707, 64866, 35429, 5121, 25350, 64015, 36104, 15214, 19561, 54624, 41575,
      15363, 19204, 53773, 42250, 13749, 17074, 56251, 44220, 13016, 17887, 56534, 43985,
      9945, 20958, 51415, 49104, 8628, 22195, 53178, 47293, 10242, 24325, 50700, 45323,
      12143, 22632, 49505, 46694, 30428, 475, 39122, 61397, 29105, 1718, 40895, 59576,
      30727, 3840, 38409, 57614, 32618, 2157, 37220, 58979, 27499, 7276, 34149, 62050,
      27654, 6913, 33288, 62735, 26032, 4791, 35774, 64697, 25309, 5594, 36051, 64468,
      19890, 15029, 41916, 54459, 19167, 15832, 42193, 54230, 17257, 13422, 44391, 55904,
      17412, 13059, 43530, 56589, 20485, 9986, 48651, 51468, 22376, 8303, 47462, 52833,
      24286, 10713, 45264, 51159, 22963, 11956, 47037, 49338, 60856, 39615, 950, 29873,
      60117, 40402, 1243, 29660, 58211, 37988, 3437, 31338, 58382, 37641, 2560, 32007,
      61455, 34568, 7681, 26886, 63330, 32869, 6508, 28267, 65236, 35283, 4314, 26589,
      63929, 36542, 6071, 24752, 54998, 41425, 14552, 20447, 53691, 42684, 16309, 18610,
      55309, 44810, 13827, 16644, 57184, 43111, 12654, 18025, 52065, 48230, 9583, 21096,
      52236, 47883, 8706, 21765, 50618, 45757, 11188, 23731, 49879, 46544, 11481, 23518,
      39780, 60515, 30058, 621, 39945, 60174, 29191, 1280, 38335, 58040, 31665, 3254,
      37586, 58837, 31964, 3035, 34515, 61908, 26845, 8154, 33214, 63161, 28592, 6327,
      34824, 65295, 26118, 4353, 36709, 63586, 24939, 5740, 40970, 55053, 19972, 14595,
      42855, 53344, 18793, 15982, 44753, 55766, 16607, 14296, 43452, 57019, 18354, 12469,
      48573, 51898, 21427, 9396, 47824, 52695, 21726, 9177, 45926, 50273, 23912, 10863,
      46091, 49932, 23045, 11522>>

IEEETableLo ==
    <<0, 12438, 24876, 20922, 50201, 62607, 42293, 38307, 34866, 47268, 59678, 55688,
      19499, 31933, 11527, 7569, 4196, 8434, 29000, 16862, 54397, 58603, 46417, 34247,
      38998, 43200, 63866, 51692, 23631, 27865, 15715, 3573, 8392, 4190, 16868, 29042,
      58577, 54343, 34301, 46443, 43258, 39020, 51670, 63808, 27875, 23669, 3535, 15705,
      12460, 58, 20864, 24854, 62645, 50211, 38297, 42255, 47262, 34824, 55730, 59684,
      31879, 19473, 7595, 11581, 16784, 28934, 8380, 4138, 34185, 46367, 58533, 54323,
      51618, 63796, 43150, 38936, 3515, 15661, 27799, 23553, 20980, 24930, 12504, 78,
      38381, 42363, 62657, 50263, 55750, 59728, 47338, 34940, 7647, 11593, 31987, 19557,
      24920, 20942, 116, 12514, 42305, 38359, 50285, 62715, 59754, 55804, 34886, 47312,
      11635, 7653, 19551, 31945, 28988, 16810, 4112, 8326, 46373, 34227, 54281, 58527,
      63758, 51608, 38946, 43188, 15639, 3457, 23611, 27821, 33568, 46006, 57868, 53914,
      18233, 30639, 9749, 5763, 2834, 15236, 27198, 23208, 53003, 65437, 44583, 40625,
      37700, 41938, 62056, 49918, 22365, 26571, 13937, 1767, 7030, 11232, 31322, 19148,
      57199, 61433, 48707, 36565, 41960, 37758, 49860, 62034, 26609, 22375, 1757, 13899,
      11226, 6988, 19190, 31328, 61379, 57173, 36591, 48761, 45964, 33562, 53920, 57910,
      30613, 18179, 5817, 9775, 15294, 2856, 23186, 27140, 65447, 53041, 40587, 44573,
      49840, 61990, 41884, 37642, 1705, 13887, 26501, 22291, 19074, 31252, 11182, 6968,
      36507, 48653, 61367, 57121, 53972, 57922, 46072, 33646, 5837, 9819, 30689, 18295,
      23270, 27248, 15306, 2908, 40703, 44649, 65491, 53061, 57976, 53998, 33620, 46018,
      9825, 5879, 18253, 30683, 27210, 23260, 2918, 15344, 44627, 40645, 53119, 65513,
      61980, 49802, 37680, 41894, 13829, 1683, 22313, 26559, 31278, 19128, 6914, 11156,
      48695, 36513, 57115, 61325>>

\* crc = table[byte(crc) ^ b] ^ (crc >> 8)
CrcByte(c, b) ==
    LET idx == Xor16(c.lo % 256, b) + 1
    IN  [hi |-> Xor16(IEEETableHi[idx], c.hi \div 256),
         lo |-> Xor16(IEEETableLo[idx], (c.lo \div 256) + (c.hi % 256) * 256)]

RECURSIVE CrcUpdate(_, _)
CrcUpdate(c, bytes) ==
    IF bytes = <<>> THEN c
    ELSE CrcUpdate(CrcByte(c, Head(bytes)), Tail(bytes))

ChecksumIEEE(bytes) == Xor32(CrcUpdate(AllOnes32, bytes), AllOnes32)

\* fmt.Sprintf("%d", n) for n >= 0
RECURSIVE Itoa(_)
Itoa(n) == IF n < 10 THEN <<48 + n>> ELSE Itoa(n \div 10) \o <<48 + (n % 10)>>

(***************************************************************************)
(* SharedBloomFilter.  The bits of a shard are the set of the indexes that *)
(* are set; Add and Contains hold the lock of the shard from start to end. *)
(***************************************************************************)
bloomShardCount == 32

createBloomStructure(hashes, bitsPerShard) ==
    [shards |-> [i \in 0..(bloomShardCount - 1) |-> {}],
     hashCount |-> hashes,
     shardSize |-> bitsPerShard]

\* the shard index and the hashes h1 (32 bits in two halves) and h2 = h1 >> 16
getShardAndHashes(id, key) ==
    LET h1 == ChecksumIEEE(Itoa(id) \o <<58>> \o key)
    IN  [shard |-> id % bloomShardCount, h1 |-> h1, h2 |-> h1.hi]

\* (h1 + i*h2) % shardSize
BloomIndex(sh, i, shardSize) ==
    ((sh.h1.hi % shardSize) * (65536 % shardSize) + (sh.h1.lo % shardSize)
        + ((i * sh.h2) % shardSize)) % shardSize

\* Add that sets the bit of the first hash only
AddFirstHashOnly(bf, id, key) ==
    LET h == getShardAndHashes(id, key)
    IN  [bf EXCEPT !.shards[h.shard] = @ \cup
            { BloomIndex(h, i, bf.shardSize) : i \in 0..(IF bf.hashCount > 0 THEN 0 ELSE 0 - 1) }]

Add(bf, id, key) ==
    LET h == getShardAndHashes(id, key)
    IN  [bf EXCEPT !.shards[h.shard] = @ \cup
            { BloomIndex(h, i, bf.shardSize) : i \in 0..(bf.hashCount - 1) }]

Contains(bf, id, key) ==
    LET h == getShardAndHashes(id, key)
    IN  \A i \in 0..(bf.hashCount - 1) :
            BloomIndex(h, i, bf.shardSize) \in bf.shards[h.shard]

(***************************************************************************)
(* Go maps as functions whose domain is the set of present keys.           *)
(***************************************************************************)
EmptyMap == [x \in {} |-> {}]

MapPut(m, k, v) == [x \in DOMAIN m \cup {k} |-> IF x = k THEN v ELSE m[x]]

MapRemove(m, k) == [x \in DOMAIN m \ {k} |-> m[x]]

(***************************************************************************)
(* storage.ShardedMemoryTable: data is the union of the 32 shard maps,     *)
(* size the sum of the shard sizes.                                        *)
(***************************************************************************)
NewMemoryTable == [data |-> EmptyMap, size |-> 0]

EntrySize(e) == Len(e.Key) + Len(e.Value) + 16

\* Put that does not subtract the size of the entry it replaces
MemPutNoSubtract(t, e) ==
    [data |-> MapPut(t.data, e.Key, e),
     size |-> t.size + EntrySize(e)]

MemPut(t, e) ==
    [data |-> MapPut(t.data, e.Key, e),
     size |-> t.size
              - (IF e.Key \in DOMAIN t.data THEN EntrySize(t.data[e.Key]) ELSE 0)
              + EntrySize(e)]

(***************************************************************************)
(* ShardedMemoryTable with its shards told apart: the key picks the shard  *)
(* by FNV-1a, Put works on that shard under its lock (MemPut), Size adds   *)
(* the counters of all shards.                                             *)
(***************************************************************************)
numShards == 32

NewShardedMemoryTable == [s \in 0..(numShards - 1) |-> NewMemoryTable]

getShardID(key) == ShardOf(key, numShards)

ShardedPut(t, key, value, expiry, isDeleted) ==
    [t EXCEPT ![getShardID(key)] = MemPut(@, Entry(key, value, expiry, isDeleted))]

RECURSIVE SizeFrom(_, _)
SizeFrom(t, i) ==
    IF i >= numShards THEN 0 ELSE t[i].size + SizeFrom(t, i + 1)

\* Size()
Size(t) == SizeFrom(t, 0)

\* DumpToSlice followed by processFlush's sort.Slice on Key
RECURSIVE SortByKey(_)
SortByKey(data) ==
    IF DOMAIN data = {} THEN <<>>
    ELSE LET k == CHOOSE k \in DOMAIN data :
                      \A j \in DOMAIN data \ {k} : StringLess(k, j)
         IN  <<data[k]>> \o SortByKey(MapRemove(data, k))

(***************************************************************************)
(* cache.LruCache: the eviction list, front first.  exp is not a field of  *)
(* cacheEntry; it records the expiry of the entry the value was taken      *)
(* from, for the statement of the expiry properties.                       *)
(***************************************************************************)
CacheIndex(c, k) ==
    IF \E i \in 1..Len(c) : c[i].key = k
    THEN CHOOSE i \in 1..Len(c) : c[i].key = k
    ELSE 0

DropAt(c, i) == SubSeq(c, 1, i - 1) \o SubSeq(c, i + 1, Len(c))

\* a Retrieve that leaves the list as it is
RetrieveNoMove(c, k) ==
    LET i == CacheIndex(c, k)
    IN  IF i = 0 THEN [hit |-> FALSE, item |-> [key |-> k, value |-> <<>>, exp |-> 0], list |-> c]
        ELSE [hit |-> TRUE, item |-> c[i], list |-> c]

\* Retrieve: hit, the value, and the list after MoveToFront
Retrieve(c, k) ==
    LET i == CacheIndex(c, k)
    IN  IF i = 0 THEN [hit |-> FALSE, item |-> [key |-> k, value |-> <<>>, exp |-> 0], list |-> c]
        ELSE [hit |-> TRUE, item |-> c[i], list |-> <<c[i]>> \o DropAt(c, i)]

Insert(c, capacity, k, v, exp) ==
    LET i == CacheIndex(c, k)
        item == [key |-> k, value |-> v, exp |-> exp]
    IN  IF i # 0 THEN <<item>> \o DropAt(c, i)
        ELSE LET pushed == <<item>> \o c
             IN  IF Len(pushed) > capacity
                 THEN SubSeq(pushed, 1, Len(pushed) - 1)
                 ELSE pushed

\* a removal that unlinks the element at the back instead
RemoveFromCacheBack(c, k) ==
    LET i == CacheIndex(c, k) IN IF i = 0 THEN c ELSE DropAt(c, Len(c))

\* RemoveFromCache: unlinks the element of the key, if any
RemoveFromCache(c, k) ==
    LET i == CacheIndex(c, k) IN IF i = 0 THEN c ELSE DropAt(c, i)

(***************************************************************************)
(* SST files.  A file is the sequence of records WriteSortedStringTable-   *)
(* ToDisk stores; the metadata index is the set of keys it maps to an      *)
(* offset; the bloom filter is the exact set of (fileID, key) pairs added. *)
(***************************************************************************)
SSTableMetadata(level, fid, entries) ==
    [Level |-> level, FileID |-> fid,
     Index |-> { entries[i].Key : i \in 1..Len(entries) }]

BloomAdd(bloom, fid, entries) ==
    bloom \cup { <<fid, entries[i].Key>> : i \in 1..Len(entries) }

\* FindInSSTable: the record of the key, found only if the index holds the
\* key and the file can be opened
FindInSSTable(meta, files, key) ==
    IF key \notin meta.Index \/ meta.FileID \notin DOMAIN files
    THEN [found |-> FALSE, entry |-> Entry(key, <<>>, 0, FALSE)]
    ELSE LET f == files[meta.FileID]
             x == CHOOSE x \in 1..Len(f) :
                      f[x].Key = key /\ \A y \in (x + 1)..Len(f) : f[y].Key # key
         IN  [found |-> TRUE, entry |-> f[x]]

(***************************************************************************)
(* The two versions of the handler applied to an entry the read path has   *)
(* found.  handled: the request is answered; ok: answered with the value.  *)
(***************************************************************************)
sendEntry(e, t) ==
    IF e.IsDeleted THEN [handled |-> FALSE, ok |-> FALSE]
    ELSE [handled |-> TRUE, ok |-> TRUE]

processEntry(e, t) ==
    IF e.IsDeleted THEN [handled |-> TRUE, ok |-> FALSE]
    ELSE IF e.ExpiryTimestamp > 0 /\ t > e.ExpiryTimestamp
         THEN [handled |-> TRUE, ok |-> FALSE]
    ELSE [handled |-> TRUE, ok |-> TRUE]

(***************************************************************************)
(* Ingestion requests and entries                                          *)
(***************************************************************************)
IngestReq(c, k, v, ttl, del) ==
    [client |-> c, Key |-> k, Val |-> v, TTL |-> ttl, IsDeleted |-> del]

\* the clock of the model counts seconds
createEntry(req, t) ==
    Entry(req.Key, req.Val, IF req.TTL > 0 THEN t + req.TTL ELSE 0, req.IsDeleted)

prepareEntries(batch, t) == [i \in 1..Len(batch) |-> createEntry(batch[i], t)]

DrainLimit == 100

\* a drain that copies the queued requests without receiving them
drainSingleQueueKeepsDrained(queue) ==
    LET rest == Tail(queue)
        count == IF Len(rest) > DrainLimit THEN DrainLimit ELSE Len(rest)
    IN  [batch |-> SubSeq(queue, 1, 1 + count), queue |-> rest]

\* the first request received and those drainSingleQueue adds to it
drainSingleQueue(queue) ==
    LET rest == Tail(queue)
        count == IF Len(rest) > DrainLimit THEN DrainLimit ELSE Len(rest)
    IN  [batch |-> SubSeq(queue, 1, 1 + count),
         queue |-> SubSeq(queue, 2 + count, Len(queue))]

\* WAL paths: the configured path, and the path with a rotation suffix
BaseWalPath == <<>>
RotatedWalPath(n) == <<n>>
NilWal == <<0 - 1>>

(***************************************************************************)
(* State.                                                                  *)
(***************************************************************************)
VARIABLES
    \* one DiskWAL instance driven on its own (open, WriteBatch, Close,
    \* reopen, Replay), as the storage tests do
    tFile,      \* bytes of the WAL file on disk
    tPc,        \* "open" | "closed": whether a DiskWAL holds the file
    tAcked,     \* entries of the WriteBatch calls that returned nil, in order
    tBatches,   \* number of WriteBatch calls that returned nil
    tComplete,  \* the complete records the file starts with, in order
    tTail,      \* bytes after the last complete record
    tFailed,    \* TRUE once a WriteBatch call returned an error
    tReopened,  \* TRUE when the path was closed and reopened since the last write
    tReplay,    \* result of the last Replay of the current file, or NoReplay
    \* one run of mergeIterators over level-0 tables given oldest first
    mTables,    \* record sequences of the input tables
    mOut,       \* the merged entries
    mPc,        \* "input" | "merged"
    \* one ShardedMemoryTable driven on its own
    pTable,     \* the shards, each with its map and its size counter
    pPuts,      \* number of Put calls made
    pThreads,   \* the Put call each goroutine is in
    pTotalSize, \* totalSize of the table that keeps one counter
    \* one SharedBloomFilter driven on its own
    fBloom,     \* per shard, the set of bit indexes that are set
    fAdded,     \* the (id, key) pairs Add was called with
    \* one SST file written and read back
    sEntries,   \* the entries handed to WriteSortedStringTableToDisk
    sFile,      \* bytes of the file
    sMeta,      \* the SSTableMetadata returned
    sRead,      \* the entries SSTableReader.Next has returned so far
    sPc,        \* "input" | "written" | "reading" | "read"
    \* one LruCache driven on its own
    lCache,     \* the eviction list, front first
    lUsed,      \* per cached key, the time of its last Insert or Retrieve hit
    lClock,     \* number of calls made
    lLast,      \* the last call, its result and the cache before it
    \* the opening of the engine
    openErr,    \* the error the last opening returned: "nil" | "replay"
    respChans,      \* the reply channels made so far, each with what it holds
    respChanPool,   \* the channels respChanPool holds
    respChanHeld,   \* the channel each blocked SubmitIngestionRequest waits on
    \* one call of drainSingleQueue on a queue that senders may append to
    dQueue,     \* the requests in the channel
    dBatch,     \* the batch the call appends to
    dCount,     \* receives the loop has still to make
    dPc,        \* "call" | "loop" | "returned"
    dQueued,    \* the requests queued when len(queue) was read
    dBatch0,    \* the batch as it was passed
    dSent,      \* sends made by other goroutines
    \* the engine
    cfg,        \* config.SystemConfiguration
    now,        \* the wall clock, in seconds
    nextId,     \* source of UnixNano file-name suffixes and object identities
    up,         \* the process is running
    crashes,    \* number of crashes so far
    bb,         \* core.SystemState
    memTables,  \* the memtable objects, by identity
    walFiles,   \* WAL files on disk, by path
    sstFiles,   \* SST files on disk, by file id
    queues,     \* SingleQueue of every shard
    batchQueues,  \* BatchQueue of every shard
    batchCalls, \* threads calling SubmitBatchIngestion
    workers,    \* runShard goroutines
    clients,    \* client threads
    flushAgent,
    compactionAgent,
    \* history, for the statement of properties only
    acked,      \* per key: the last acknowledged write
    pairs,      \* (memtable, WAL) pairs that were active together
    lastFlush   \* memtable written and WAL deleted by the last flush commit

walVars == <<tFile, tPc, tAcked, tBatches, tComplete, tTail, tFailed, tReopened, tReplay>>

mergeVars == <<mTables, mOut, mPc>>

memUnitVars == <<pTable, pPuts, pThreads, pTotalSize>>

bloomUnitVars == <<fBloom, fAdded>>

sstUnitVars == <<sEntries, sFile, sMeta, sRead, sPc>>

lruUnitVars == <<lCache, lUsed, lClock, lLast>>

openVars == <<openErr>>

replyVars == <<respChans, respChanPool, respChanHeld>>

drainVars == <<dQueue, dBatch, dCount, dPc, dQueued, dBatch0, dSent>>

unitVars == <<memUnitVars, bloomUnitVars, sstUnitVars, lruUnitVars, openVars, replyVars, drainVars,
             drainVars>>

batchVars == <<batchQueues, batchCalls>>

engineVars ==
    <<cfg, now, nextId, up, crashes, bb, memTables, walFiles, sstFiles, queues,
      batchVars, workers, clients, flushAgent, compactionAgent, acked, pairs,
      lastFlush>>

vars == <<walVars, mergeVars, unitVars, engineVars>>

(***************************************************************************)
(* The engine: construction                                                *)
(***************************************************************************)
NumLevels == 4

NoTable == 0 - 1

NoMeta == [Level |-> 0, FileID |-> 0, Index |-> {}]

NoEntry == Entry(<<>>, <<>>, 0, FALSE)

SystemConfiguration(durable, maxMem, trigger, capacity, cpus, handler) ==
    [EnableDiskDurability |-> durable,
     MaximumMemtableSizeInBytes |-> maxMem,
     LevelZeroCompactionTriggerCount |-> trigger,
     KeyCacheCapacityCount |-> capacity,
     MaximumCpuCount |-> cpus,
     GetHandler |-> handler]

\* core.NewSystemState, with the memtable object it allocates
NewSystemState(mem) ==
    [MemTable |-> mem,
     ImmutableMem |-> <<>>,
     ActiveWal |-> NilWal,
     FrozenWALs |-> <<>>,
     SSTables |-> [l \in 1..NumLevels |-> <<>>],
     BloomFilter |-> {},
     KeyCache |-> <<>>]

NoOp == [kind |-> "none", key |-> <<>>, ok |-> FALSE]

NoServed == [ok |-> FALSE, value |-> <<>>, exp |-> 0, at |-> 0, src |-> "none"]

IdleClient(ops) ==
    [pc |-> "idle", left |-> ops, op |-> NoOp, prev |-> NoOp,
     found |-> NoEntry, src |-> "none", L |-> 0, level |-> <<>>, i |-> 0,
     served |-> NoServed]

\* call is the SubmitBatchIngestion thread whose group is being processed,
\* NoCall for a batch drained from the SingleQueue; err is what processBatch
\* met, aborted the entries of the batches whose WAL write failed so far
NoCall == 0

IdleWorker ==
    [pc |-> "idle", batch |-> <<>>, entries |-> <<>>, i |-> 0,
     wal |-> NilWal, mems |-> {}, call |-> NoCall, err |-> "nil",
     aborted |-> {}, loaded |-> NoTable]

\* a thread that may call SubmitBatchIngestion: responseChan is the buffered
\* channel of the call, failed the shards whose processBatch met an error
IdleCall(calls) ==
    [pc |-> "idle", left |-> calls, items |-> <<>>, activeShards |-> 0,
     received |-> 0, responseChan |-> <<>>, finalErr |-> "nil", failed |-> {}]

IdleFlush == [pc |-> "wait", table |-> NoTable, meta |-> NoMeta]

IdleCompaction == [pc |-> "idle", tables |-> <<>>, meta |-> NoMeta, err |-> "nil"]

NoWrite == [last |-> NoEntry, hadPut |-> FALSE, sure |-> TRUE, crashed |-> FALSE]

NoFlush == [mem |-> NoTable, wal |-> NilWal]

\* main: NewSystemState, the WAL opened on the configured path, the agents
\* started; nClients client threads that may issue ops operations each on
\* the given keys
EngineInitWith(c, nClients, ops, keys, nCalls, calls) ==
    /\ cfg = c
    /\ now = 0
    /\ nextId = 1
    /\ up = TRUE
    /\ crashes = 0
    /\ bb = [NewSystemState(0) EXCEPT
                !.ActiveWal = IF c.EnableDiskDurability THEN BaseWalPath ELSE NilWal]
    /\ memTables = MapPut(EmptyMap, 0, NewMemoryTable)
    /\ walFiles = IF c.EnableDiskDurability
                  THEN MapPut(EmptyMap, BaseWalPath, <<>>) ELSE EmptyMap
    /\ sstFiles = EmptyMap
    /\ queues = [s \in 0..(c.MaximumCpuCount - 1) |-> <<>>]
    /\ batchQueues = [s \in 0..(c.MaximumCpuCount - 1) |-> <<>>]
    /\ batchCalls = [x \in 1..nCalls |-> IdleCall(calls)]
    /\ workers = [s \in 0..(c.MaximumCpuCount - 1) |-> IdleWorker]
    /\ clients = [x \in 1..nClients |-> IdleClient(ops)]
    /\ flushAgent = IdleFlush
    /\ compactionAgent = IdleCompaction
    /\ acked = [k \in keys |-> NoWrite]
    /\ pairs = { <<0, IF c.EnableDiskDurability THEN BaseWalPath ELSE NilWal>> }
    /\ lastFlush = NoFlush

\* the same with no thread calling SubmitBatchIngestion
EngineInit(c, nClients, ops, keys) == EngineInitWith(c, nClients, ops, keys, 0, 0)

\* what the single-request path, the agents and the read path leave alone
harnessVars == <<walVars, mergeVars, unitVars, batchVars>>

(***************************************************************************)
(* Clients: SubmitIngestionRequest                                         *)
(***************************************************************************)
SubmitIngestionRequest(c, k, v, ttl, del) ==
    /\ up
    /\ clients[c].pc = "idle"
    /\ clients[c].left > 0
    /\ LET shardID == ShardOf(k, cfg.MaximumCpuCount)
       IN  queues' = [queues EXCEPT ![shardID] = Append(@, IngestReq(c, k, v, ttl, del))]
    /\ clients' = [clients EXCEPT ![c] =
           [@ EXCEPT !.pc = "put", !.left = @ - 1, !.prev = clients[c].op,
                     !.op = [kind |-> IF del THEN "delete" ELSE "put",
                             key |-> k, ok |-> FALSE],
                     !.served = NoServed]]
    /\ UNCHANGED <<cfg, now, nextId, up, crashes, bb, memTables, walFiles, sstFiles,
                   workers, flushAgent, compactionAgent, acked, pairs, lastFlush,
                   harnessVars>>

\* the reply each request of a batch receives on its ResponseChannel
Replied(cl, batch, ok) ==
    [x \in DOMAIN cl |->
        IF \E i \in 1..Len(batch) : batch[i].client = x
        THEN [cl[x] EXCEPT !.pc = "idle", !.op.ok = ok]
        ELSE cl[x]]

RECURSIVE Acknowledged(_, _)
Acknowledged(a, entries) ==
    IF entries = <<>> THEN a
    ELSE LET e == Head(entries)
         IN  Acknowledged([a EXCEPT ![e.Key] =
                              [last |-> e,
                               hadPut |-> @.hadPut \/ ~e.IsDeleted,
                               sure |-> @.sure,
                               crashed |-> FALSE]],
                          Tail(entries))

RECURSIVE Unsure(_, _)
Unsure(a, reqs) ==
    IF reqs = <<>> THEN a
    ELSE Unsure([a EXCEPT ![Head(reqs).Key].sure = FALSE], Tail(reqs))

(***************************************************************************)
(* Ingestion workers: runShard, processBatch                               *)
(***************************************************************************)
\* a processBatch that applies the entries before it writes the WAL
runShardApplyFirst(w) ==
    /\ up
    /\ workers[w].pc = "idle"
    /\ queues[w] # <<>>
    /\ LET d == drainSingleQueue(queues[w])
       IN  /\ queues' = [queues EXCEPT ![w] = d.queue]
           /\ workers' = [workers EXCEPT ![w] =
                  [@ EXCEPT !.pc = "put", !.batch = d.batch,
                            !.entries = prepareEntries(d.batch, now),
                            !.i = 1, !.wal = NilWal, !.mems = {},
                            !.call = NoCall, !.err = "nil"]]
    /\ UNCHANGED <<cfg, now, nextId, up, crashes, bb, memTables, walFiles, sstFiles,
                   clients, flushAgent, compactionAgent, acked, pairs, lastFlush,
                   harnessVars>>

\* a request is received, the queue drained, the entries prepared
runShard(w) ==
    /\ up
    /\ workers[w].pc = "idle"
    /\ queues[w] # <<>>
    /\ LET d == drainSingleQueue(queues[w])
       IN  /\ queues' = [queues EXCEPT ![w] = d.queue]
           /\ workers' = [workers EXCEPT ![w] =
                  [@ EXCEPT !.pc = "wal", !.batch = d.batch,
                            !.entries = prepareEntries(d.batch, now),
                            !.i = 1, !.wal = NilWal, !.mems = {},
                            !.call = NoCall, !.err = "nil"]]
    /\ UNCHANGED <<cfg, now, nextId, up, crashes, bb, memTables, walFiles, sstFiles,
                   clients, flushAgent, compactionAgent, acked, pairs, lastFlush,
                   harnessVars>>

\* WriteBatch on the WAL bb.ActiveWal names at this moment; the whole buffer
\* is appended by one write under the WAL mutex
writeWalIfEnabled(w) ==
    /\ up
    /\ workers[w].pc = "wal"
    /\ IF ~cfg.EnableDiskDurability \/ bb.ActiveWal = NilWal
       THEN /\ workers' = [workers EXCEPT ![w].pc = "put"]
            /\ UNCHANGED walFiles
       ELSE /\ bb.ActiveWal \in DOMAIN walFiles
            /\ walFiles' = [walFiles EXCEPT
                   ![bb.ActiveWal] = @ \o EncodeBatch(workers[w].entries)]
            /\ workers' = [workers EXCEPT ![w] =
                   [@ EXCEPT !.pc = "put", !.wal = bb.ActiveWal]]
    /\ UNCHANGED <<cfg, now, nextId, up, crashes, bb, memTables, sstFiles, queues,
                   clients, flushAgent, compactionAgent, acked, pairs, lastFlush,
                   harnessVars>>

\* applyToMemTable, one entry: Put into the memtable bb.MemTable names at
\* this moment, then RemoveFromCache
applyToMemTable(w) ==
    /\ up
    /\ workers[w].pc = "put"
    /\ LET e == workers[w].entries[workers[w].i]
           m == bb.MemTable
       IN  /\ memTables' = [memTables EXCEPT ![m] = MemPut(@, e)]
           /\ bb' = [bb EXCEPT !.KeyCache = RemoveFromCache(@, e.Key)]
           /\ workers' = [workers EXCEPT ![w] =
                  [@ EXCEPT !.i = @ + 1, !.mems = @ \cup {m},
                            !.pc = IF workers[w].i = Len(workers[w].entries)
                                   THEN "check" ELSE "put"]]
    /\ UNCHANGED <<cfg, now, nextId, up, crashes, walFiles, sstFiles, queues,
                   clients, flushAgent, compactionAgent, acked, pairs, lastFlush,
                   harnessVars>>

\* applyToMemTable reads bb.MemTable without the engine lock: the load of
\* the pointer, which a rotation by another worker may follow before the Put
loadMemTable(w) ==
    /\ up
    /\ workers[w].pc = "put"
    /\ workers' = [workers EXCEPT ![w] =
           [@ EXCEPT !.pc = "loaded", !.loaded = bb.MemTable]]
    /\ UNCHANGED <<cfg, now, nextId, up, crashes, bb, memTables, walFiles, sstFiles,
                   queues, clients, flushAgent, compactionAgent, acked, pairs,
                   lastFlush, harnessVars>>

\* the Put on the memtable that was loaded, then RemoveFromCache; a memtable
\* the flush agent has dropped is referenced by this worker alone
putLoaded(w) ==
    /\ up
    /\ workers[w].pc = "loaded"
    /\ LET e == workers[w].entries[workers[w].i]
           m == workers[w].loaded
       IN  /\ memTables' = IF m \in DOMAIN memTables
                           THEN [memTables EXCEPT ![m] = MemPut(@, e)]
                           ELSE memTables
           /\ bb' = [bb EXCEPT !.KeyCache = RemoveFromCache(@, e.Key)]
           /\ workers' = [workers EXCEPT ![w] =
                  [@ EXCEPT !.i = @ + 1, !.mems = @ \cup {m}, !.loaded = NoTable,
                            !.pc = IF workers[w].i = Len(workers[w].entries)
                                   THEN "check" ELSE "put"]]
    /\ UNCHANGED <<cfg, now, nextId, up, crashes, walFiles, sstFiles, queues,
                   clients, flushAgent, compactionAgent, acked, pairs, lastFlush,
                   harnessVars>>

\* notifySuccess and the return to the select of runShard
Notified(w) ==
    /\ clients' = Replied(clients, workers[w].batch, TRUE)
    /\ acked' = Acknowledged(acked, workers[w].entries)
    /\ workers' = [workers EXCEPT ![w] =
           [@ EXCEPT !.pc = IF workers[w].call = NoCall THEN "idle" ELSE "respond",
                     !.batch = <<>>, !.entries = <<>>, !.i = 0]]

\* the unlocked size test that ends applyToMemTable
checkSize(w) ==
    /\ up
    /\ workers[w].pc = "check"
    /\ IF memTables[bb.MemTable].size >= cfg.MaximumMemtableSizeInBytes
       THEN /\ workers' = [workers EXCEPT ![w].pc = "rotate"]
            /\ UNCHANGED <<clients, acked>>
       ELSE Notified(w)
    /\ UNCHANGED <<cfg, now, nextId, up, crashes, bb, memTables, walFiles, sstFiles,
                   queues, flushAgent, compactionAgent, pairs, lastFlush,
                   harnessVars>>

\* a rotateWal that freezes the active WAL before it looks at the error of
\* NewDiskWAL
rotateMemTableFreezesFirst(walOpens) ==
    LET mem == nextId
        path == RotatedWalPath(nextId + 1)
        hasWal == cfg.EnableDiskDurability /\ bb.ActiveWal # NilWal
        withWal == hasWal /\ walOpens
    IN  /\ memTables' = MapPut(memTables, mem, NewMemoryTable)
        /\ bb' = [bb EXCEPT
               !.ImmutableMem = Append(@, bb.MemTable),
               !.MemTable = mem,
               !.FrozenWALs = IF hasWal THEN Append(@, bb.ActiveWal) ELSE @,
               !.ActiveWal = IF withWal THEN path ELSE @]
        /\ walFiles' = IF withWal THEN MapPut(walFiles, path, <<>>) ELSE walFiles
        /\ pairs' = pairs \cup { <<mem, IF withWal THEN path ELSE bb.ActiveWal>> }
        /\ nextId' = nextId + 2
        /\ flushAgent' = IF flushAgent.pc = "parked"
                         THEN [flushAgent EXCEPT !.pc = "wait"] ELSE flushAgent

\* rotateMemTable without its FlushCondition.Signal(): a parked flush agent
\* stays parked
rotateMemTableNoSignal(walOpens) ==
    LET mem == nextId
        path == RotatedWalPath(nextId + 1)
        withWal == cfg.EnableDiskDurability /\ bb.ActiveWal # NilWal /\ walOpens
    IN  /\ memTables' = MapPut(memTables, mem, NewMemoryTable)
        /\ bb' = [bb EXCEPT
               !.ImmutableMem = Append(@, bb.MemTable),
               !.MemTable = mem,
               !.FrozenWALs = IF withWal THEN Append(@, bb.ActiveWal) ELSE @,
               !.ActiveWal = IF withWal THEN path ELSE @]
        /\ walFiles' = IF withWal THEN MapPut(walFiles, path, <<>>) ELSE walFiles
        /\ pairs' = pairs \cup { <<mem, IF withWal THEN path ELSE bb.ActiveWal>> }
        /\ nextId' = nextId + 2
        /\ flushAgent' = flushAgent

\* rotateMemTable with rotateWal; walOpens tells whether NewDiskWAL succeeds
rotateMemTable(walOpens) ==
    LET mem == nextId
        path == RotatedWalPath(nextId + 1)
        withWal == cfg.EnableDiskDurability /\ bb.ActiveWal # NilWal /\ walOpens
    IN  /\ memTables' = MapPut(memTables, mem, NewMemoryTable)
        /\ bb' = [bb EXCEPT
               !.ImmutableMem = Append(@, bb.MemTable),
               !.MemTable = mem,
               !.FrozenWALs = IF withWal THEN Append(@, bb.ActiveWal) ELSE @,
               !.ActiveWal = IF withWal THEN path ELSE @]
        /\ walFiles' = IF withWal THEN MapPut(walFiles, path, <<>>) ELSE walFiles
        /\ pairs' = pairs \cup { <<mem, IF withWal THEN path ELSE bb.ActiveWal>> }
        /\ nextId' = nextId + 2
        \* FlushCondition.Signal(): the flush agent, if it waits, is woken and
        \* tests the queue again
        /\ flushAgent' = IF flushAgent.pc = "parked"
                         THEN [flushAgent EXCEPT !.pc = "wait"] ELSE flushAgent

\* a checkAndRotate that does not test Size again under the engine lock
checkAndRotateNoRetest(w) ==
    /\ up
    /\ workers[w].pc = "rotate"
    /\ rotateMemTable(TRUE)
    /\ Notified(w)
    /\ UNCHANGED <<cfg, now, up, crashes, sstFiles, queues,
                   compactionAgent, lastFlush, harnessVars>>

\* checkAndRotate under the engine lock, then notifySuccess
checkAndRotate(w) ==
    /\ up
    /\ workers[w].pc = "rotate"
    /\ IF memTables[bb.MemTable].size >= cfg.MaximumMemtableSizeInBytes
       THEN rotateMemTable(TRUE)
       ELSE UNCHANGED <<memTables, bb, walFiles, pairs, nextId, flushAgent>>
    /\ Notified(w)
    /\ UNCHANGED <<cfg, now, up, crashes, sstFiles, queues,
                   compactionAgent, lastFlush, harnessVars>>

\* the same with NewDiskWAL failing inside rotateWal
checkAndRotateWalFails(w) ==
    /\ up
    /\ workers[w].pc = "rotate"
    /\ cfg.EnableDiskDurability
    /\ bb.ActiveWal # NilWal
    /\ memTables[bb.MemTable].size >= cfg.MaximumMemtableSizeInBytes
    /\ rotateMemTable(FALSE)
    /\ Notified(w)
    /\ UNCHANGED <<cfg, now, up, crashes, sstFiles, queues,
                   compactionAgent, lastFlush, harnessVars>>

\* what a WriteBatch that returns an error may have left in the file: none
\* of the buffer, a part of it, or all of it when it is Sync that fails
WrittenBeforeError(buffer) == { 0, 1, Len(buffer) }

\* writeWalIfEnabled with WriteBatch returning an error: notifyErrors, and
\* processBatch returns
writeWalFails(w) ==
    /\ up
    /\ workers[w].pc = "wal"
    /\ cfg.EnableDiskDurability
    /\ bb.ActiveWal \in DOMAIN walFiles
    /\ \E n \in WrittenBeforeError(EncodeBatch(workers[w].entries)) :
           walFiles' = [walFiles EXCEPT ![bb.ActiveWal] =
                           @ \o SubSeq(EncodeBatch(workers[w].entries), 1, n)]
    /\ clients' = Replied(clients, workers[w].batch, FALSE)
    /\ acked' = Unsure(acked, workers[w].batch)
    /\ workers' = [workers EXCEPT ![w] =
           [@ EXCEPT !.pc = IF workers[w].call = NoCall THEN "idle" ELSE "respond",
                     !.batch = <<>>, !.entries = <<>>, !.i = 0, !.err = "io",
                     !.aborted = @ \cup { workers[w].entries[i] : i \in 1..Len(workers[w].entries) }]]
    /\ UNCHANGED <<cfg, now, nextId, up, crashes, bb, memTables, sstFiles, queues,
                   batchVars, flushAgent, compactionAgent, pairs, lastFlush,
                   walVars, mergeVars, unitVars>>

(***************************************************************************)
(* Batch ingestion: SubmitBatchIngestion and the BatchQueue case of        *)
(* runShard                                                                *)
(***************************************************************************)
\* the requests of groupItemsByShard carry no ResponseChannel
NoClient == 0

groupItemsByShard(items, n) ==
    [s \in { ShardOf(items[i].Key, n) : i \in 1..Len(items) } |->
        LET mine == SelectSeq(items, LAMBDA it : ShardOf(it.Key, n) = s)
        IN  [i \in 1..Len(mine) |->
                IngestReq(NoClient, mine[i].Key, mine[i].Val, mine[i].TTL, FALSE)]]

\* SubmitBatchIngestion up to the last send of dispatchAndAwaitBatches
SubmitBatchIngestion(x, items) ==
    /\ up
    /\ batchCalls[x].pc \in {"idle", "done"}
    /\ batchCalls[x].left > 0
    /\ LET batches == groupItemsByShard(items, cfg.MaximumCpuCount)
       IN  /\ batchQueues' =
                  [s \in DOMAIN batchQueues |->
                      IF s \in DOMAIN batches
                      THEN Append(batchQueues[s], [Items |-> batches[s], call |-> x])
                      ELSE batchQueues[s]]
           /\ batchCalls' = [batchCalls EXCEPT ![x] =
                  [pc |-> IF Len(items) = 0 THEN "done" ELSE "await",
                   left |-> batchCalls[x].left - 1,
                   items |-> items,
                   activeShards |-> Cardinality(DOMAIN batches),
                   received |-> 0, responseChan |-> <<>>,
                   finalErr |-> "nil", failed |-> {}]]
    /\ UNCHANGED <<cfg, now, nextId, up, crashes, bb, memTables, walFiles, sstFiles,
                   queues, workers, clients, flushAgent, compactionAgent, acked,
                   pairs, lastFlush, walVars, mergeVars, unitVars>>

\* one receive of the loop of dispatchAndAwaitBatches, and its return after
\* the last one
awaitResponse(x) ==
    /\ up
    /\ batchCalls[x].pc = "await"
    /\ batchCalls[x].responseChan # <<>>
    /\ LET err == Head(batchCalls[x].responseChan)
       IN  batchCalls' = [batchCalls EXCEPT ![x] =
               [@ EXCEPT !.responseChan = Tail(@), !.received = @ + 1,
                         !.finalErr = IF err # "nil" /\ @ = "nil" THEN err ELSE @,
                         !.pc = IF batchCalls[x].received + 1 = batchCalls[x].activeShards
                                THEN "done" ELSE "await"]]
    /\ UNCHANGED <<cfg, now, nextId, up, crashes, bb, memTables, walFiles, sstFiles,
                   queues, batchQueues, workers, clients, flushAgent,
                   compactionAgent, acked, pairs, lastFlush, walVars, mergeVars,
                   unitVars>>

\* case batch := <-chans.BatchQueue, up to the call of processBatch
runShardBatch(w) ==
    /\ up
    /\ workers[w].pc = "idle"
    /\ batchQueues[w] # <<>>
    /\ LET batch == Head(batchQueues[w])
       IN  workers' = [workers EXCEPT ![w] =
               [@ EXCEPT !.pc = "wal", !.batch = batch.Items,
                         !.entries = prepareEntries(batch.Items, now),
                         !.i = 1, !.wal = NilWal, !.mems = {},
                         !.call = batch.call, !.err = "nil"]]
    /\ batchQueues' = [batchQueues EXCEPT ![w] = Tail(@)]
    /\ UNCHANGED <<cfg, now, nextId, up, crashes, bb, memTables, walFiles, sstFiles,
                   queues, batchCalls, clients, flushAgent, compactionAgent, acked,
                   pairs, lastFlush, walVars, mergeVars, unitVars>>

\* batch.ResponseChannel <- nil, after processBatch has returned
respondBatch(w) ==
    /\ up
    /\ workers[w].pc = "respond"
    /\ batchCalls' = [batchCalls EXCEPT ![workers[w].call] =
           [@ EXCEPT !.responseChan = Append(@, "nil"),
                     !.failed = IF workers[w].err # "nil" THEN @ \cup {w} ELSE @]]
    /\ workers' = [workers EXCEPT ![w] = [@ EXCEPT !.pc = "idle", !.call = NoCall]]
    /\ UNCHANGED <<cfg, now, nextId, up, crashes, bb, memTables, walFiles, sstFiles,
                   queues, batchQueues, clients, flushAgent, compactionAgent, acked,
                   pairs, lastFlush, walVars, mergeVars, unitVars>>

(***************************************************************************)
(* Flush agent                                                             *)
(***************************************************************************)
\* a waitForFlush that takes the newest memtable of the queue
waitForFlushNewest ==
    /\ up
    /\ flushAgent.pc = "wait"
    /\ flushAgent' = IF Len(bb.ImmutableMem) = 0
                     THEN [flushAgent EXCEPT !.pc = "parked"]
                     ELSE [flushAgent EXCEPT !.pc = "write",
                               !.table = bb.ImmutableMem[Len(bb.ImmutableMem)]]
    /\ UNCHANGED <<cfg, now, nextId, up, crashes, bb, memTables, walFiles, sstFiles,
                   queues, workers, clients, compactionAgent, acked, pairs,
                   lastFlush, harnessVars>>

\* waitForFlush under the engine lock: with the queue empty the agent parks
\* in FlushCondition.Wait(), which returns only when rotateMemTable signals;
\* otherwise it returns the head of the queue
waitForFlush ==
    /\ up
    /\ flushAgent.pc = "wait"
    /\ flushAgent' = IF Len(bb.ImmutableMem) = 0
                     THEN [flushAgent EXCEPT !.pc = "parked"]
                     ELSE [flushAgent EXCEPT !.pc = "write",
                                             !.table = bb.ImmutableMem[1]]
    /\ UNCHANGED <<cfg, now, nextId, up, crashes, bb, memTables, walFiles, sstFiles,
                   queues, workers, clients, compactionAgent, acked, pairs,
                   lastFlush, harnessVars>>

\* processFlush up to the call of commitFlush: dump, sort, write the L0 file
processFlush ==
    /\ up
    /\ flushAgent.pc = "write"
    /\ LET entries == SortByKey(memTables[flushAgent.table].data)
           fid == nextId
       IN  /\ sstFiles' = MapPut(sstFiles, fid, entries)
           /\ bb' = [bb EXCEPT !.BloomFilter = BloomAdd(@, fid, entries)]
           /\ flushAgent' = [flushAgent EXCEPT
                  !.pc = "commit", !.meta = SSTableMetadata(0, fid, entries)]
    /\ nextId' = nextId + 1
    /\ UNCHANGED <<cfg, now, up, crashes, memTables, walFiles, queues, workers,
                   clients, compactionAgent, acked, pairs, lastFlush, harnessVars>>

\* processFlush when os.Create fails in WriteSortedStringTableToDisk: the
\* error reaches commitFlush, which logs it and returns; the goroutine goes
\* back to waitForFlush
processFlushCreateFails ==
    /\ up
    /\ flushAgent.pc = "write"
    /\ flushAgent' = IdleFlush
    /\ UNCHANGED <<cfg, now, nextId, up, crashes, bb, memTables, walFiles, sstFiles,
                   queues, workers, clients, compactionAgent, acked, pairs,
                   lastFlush, harnessVars>>

\* processFlush when a Write or the Flush of the bufio.Writer fails: the
\* results are not looked at, so the file holds a part of the records and
\* WriteSortedStringTableToDisk returns the metadata of all of them with a
\* nil error
processFlushWriteFails ==
    /\ up
    /\ flushAgent.pc = "write"
    /\ LET entries == SortByKey(memTables[flushAgent.table].data)
           fid == nextId
       IN  /\ Len(entries) > 0
           /\ \E n \in 0..(Len(entries) - 1) :
                  sstFiles' = MapPut(sstFiles, fid, SubSeq(entries, 1, n))
           /\ bb' = [bb EXCEPT !.BloomFilter = BloomAdd(@, fid, entries)]
           /\ flushAgent' = [flushAgent EXCEPT
                  !.pc = "commit", !.meta = SSTableMetadata(0, fid, entries)]
    /\ nextId' = nextId + 1
    /\ UNCHANGED <<cfg, now, up, crashes, memTables, walFiles, queues, workers,
                   clients, compactionAgent, acked, pairs, lastFlush, harnessVars>>

\* commitFlush with rotateFrozenWal, under the engine lock
commitFlush ==
    /\ up
    /\ flushAgent.pc = "commit"
    /\ LET popMem == Len(bb.ImmutableMem) > 0
           popWal == cfg.EnableDiskDurability /\ Len(bb.FrozenWALs) > 0
       IN  /\ bb' = [bb EXCEPT
                  !.SSTables[1] = Append(@, flushAgent.meta),
                  !.ImmutableMem = IF popMem THEN Tail(@) ELSE @,
                  !.FrozenWALs = IF popWal THEN Tail(@) ELSE @]
           /\ walFiles' = IF popWal THEN MapRemove(walFiles, bb.FrozenWALs[1])
                          ELSE walFiles
           /\ memTables' = MapRemove(memTables, flushAgent.table)
           /\ lastFlush' = [mem |-> flushAgent.table,
                            wal |-> IF popWal THEN bb.FrozenWALs[1] ELSE NilWal]
    /\ flushAgent' = IdleFlush
    /\ UNCHANGED <<cfg, now, nextId, up, crashes, sstFiles, queues, workers,
                   clients, compactionAgent, acked, pairs, harnessVars>>

(***************************************************************************)
(* Compaction agent                                                        *)
(***************************************************************************)
\* the locked part of checkAndRunCompaction when the trigger is reached
checkAndRunCompaction ==
    /\ up
    /\ compactionAgent.pc = "idle"
    /\ Len(bb.SSTables[1]) >= cfg.LevelZeroCompactionTriggerCount
    /\ compactionAgent' = [compactionAgent EXCEPT
           !.pc = "merge", !.tables = bb.SSTables[1], !.err = "nil"]
    /\ bb' = [bb EXCEPT !.SSTables[1] = <<>>]
    /\ UNCHANGED <<cfg, now, nextId, up, crashes, memTables, walFiles, sstFiles,
                   queues, workers, clients, flushAgent, acked, pairs, lastFlush,
                   harnessVars>>

\* a performMerge that hands no bloom filter to WriteSortedStringTableToDisk
performMergeNoBloom ==
    /\ up
    /\ compactionAgent.pc = "merge"
    /\ \A i \in 1..Len(compactionAgent.tables) :
           compactionAgent.tables[i].FileID \in DOMAIN sstFiles
    /\ LET tables == compactionAgent.tables
           entries == mergeIterators([i \in 1..Len(tables) |-> sstFiles[tables[i].FileID]])
           fid == nextId
       IN  /\ sstFiles' = MapPut(sstFiles, fid, entries)
           /\ bb' = bb
           /\ compactionAgent' = [compactionAgent EXCEPT
                  !.pc = "commit", !.meta = SSTableMetadata(1, fid, entries)]
    /\ nextId' = nextId + 1
    /\ UNCHANGED <<cfg, now, up, crashes, memTables, walFiles, queues, workers,
                   clients, flushAgent, acked, pairs, lastFlush, harnessVars>>

\* performMerge, outside the lock
performMerge ==
    /\ up
    /\ compactionAgent.pc = "merge"
    /\ \A i \in 1..Len(compactionAgent.tables) :
           compactionAgent.tables[i].FileID \in DOMAIN sstFiles
    /\ LET tables == compactionAgent.tables
           entries == mergeIterators([i \in 1..Len(tables) |-> sstFiles[tables[i].FileID]])
           fid == nextId
       IN  /\ sstFiles' = MapPut(sstFiles, fid, entries)
           /\ bb' = [bb EXCEPT !.BloomFilter = BloomAdd(@, fid, entries)]
           /\ compactionAgent' = [compactionAgent EXCEPT
                  !.pc = "commit", !.meta = SSTableMetadata(1, fid, entries)]
    /\ nextId' = nextId + 1
    /\ UNCHANGED <<cfg, now, up, crashes, memTables, walFiles, queues, workers,
                   clients, flushAgent, acked, pairs, lastFlush, harnessVars>>

RECURSIVE RemoveFiles(_, _)
RemoveFiles(files, tables) ==
    IF tables = <<>> THEN files
    ELSE RemoveFiles(MapRemove(files, Head(tables).FileID), Tail(tables))

\* an error branch that appends the captured tables after the ones flushed
\* during the merge
executeCompactionFailsAppends ==
    /\ up
    /\ compactionAgent.pc = "merge"
    /\ bb' = [bb EXCEPT !.SSTables[1] = @ \o compactionAgent.tables]
    /\ compactionAgent' = [IdleCompaction EXCEPT !.err = "merge"]
    /\ UNCHANGED <<cfg, now, nextId, up, crashes, memTables, walFiles, sstFiles,
                   queues, workers, clients, flushAgent, acked, pairs, lastFlush,
                   harnessVars>>

\* an error branch that unlinks the files of the tables it puts back
executeCompactionFailsUnlinks ==
    /\ up
    /\ compactionAgent.pc = "merge"
    /\ bb' = [bb EXCEPT !.SSTables[1] = compactionAgent.tables \o @]
    /\ sstFiles' = RemoveFiles(sstFiles, compactionAgent.tables)
    /\ compactionAgent' = [IdleCompaction EXCEPT !.err = "merge"]
    /\ UNCHANGED <<cfg, now, nextId, up, crashes, memTables, walFiles,
                   queues, workers, clients, flushAgent, acked, pairs, lastFlush,
                   harnessVars>>

\* executeCompaction when performMerge returns an error (a table that cannot
\* be opened, or os.Create of the merged file failing): under the lock the
\* captured tables are put back in front of level 0
executeCompactionFails ==
    /\ up
    /\ compactionAgent.pc = "merge"
    /\ bb' = [bb EXCEPT !.SSTables[1] = compactionAgent.tables \o @]
    /\ compactionAgent' = [IdleCompaction EXCEPT !.err = "merge"]
    /\ UNCHANGED <<cfg, now, nextId, up, crashes, memTables, walFiles, sstFiles,
                   queues, workers, clients, flushAgent, acked, pairs, lastFlush,
                   harnessVars>>

\* a commitCompaction without its os.Remove loop
commitCompactionKeepsFiles ==
    /\ up
    /\ compactionAgent.pc = "commit"
    /\ bb' = [bb EXCEPT !.SSTables[2] = Append(@, compactionAgent.meta)]
    /\ sstFiles' = sstFiles
    /\ compactionAgent' = IdleCompaction
    /\ UNCHANGED <<cfg, now, nextId, up, crashes, memTables, walFiles, queues,
                   workers, clients, flushAgent, acked, pairs, lastFlush,
                   harnessVars>>

\* the locked end of executeCompaction: commitCompaction
commitCompaction ==
    /\ up
    /\ compactionAgent.pc = "commit"
    /\ bb' = [bb EXCEPT !.SSTables[2] = Append(@, compactionAgent.meta)]
    /\ sstFiles' = RemoveFiles(sstFiles, compactionAgent.tables)
    /\ compactionAgent' = IdleCompaction
    /\ UNCHANGED <<cfg, now, nextId, up, crashes, memTables, walFiles, queues,
                   workers, clients, flushAgent, acked, pairs, lastFlush,
                   harnessVars>>

(***************************************************************************)
(* HandleGetRequest                                                        *)
(***************************************************************************)
\* the request is answered: the client thread is idle again
Answered(c, served) ==
    [clients[c] EXCEPT !.pc = "idle", !.op.ok = served.ok, !.served = served,
                       !.found = NoEntry, !.src = "none", !.L = 0,
                       !.level = <<>>, !.i = 0]

NotFound == [NoServed EXCEPT !.at = now]

\* the request arrives and tryCache runs
HandleGetRequest(c, k) ==
    /\ up
    /\ clients[c].pc = "idle"
    /\ clients[c].left > 0
    /\ LET r == Retrieve(bb.KeyCache, k)
           started == [clients[c] EXCEPT
                          !.left = @ - 1, !.prev = clients[c].op,
                          !.op = [kind |-> "get", key |-> k, ok |-> FALSE],
                          !.served = NoServed]
       IN  IF r.hit
           THEN /\ bb' = [bb EXCEPT !.KeyCache = r.list]
                /\ clients' = [clients EXCEPT ![c] =
                       [started EXCEPT !.op.ok = TRUE,
                            !.served = [ok |-> TRUE, value |-> r.item.value,
                                        exp |-> r.item.exp, at |-> now,
                                        src |-> "cache"]]]
           ELSE /\ clients' = [clients EXCEPT ![c] = [started EXCEPT !.pc = "mem"]]
                /\ UNCHANGED bb
    /\ UNCHANGED <<cfg, now, nextId, up, crashes, memTables, walFiles, sstFiles,
                   queues, workers, flushAgent, compactionAgent, acked, pairs,
                   lastFlush, harnessVars>>

\* the tables tryMemory looks into, in its order: active, then immutables
\* newest first
MemorySources ==
    <<bb.MemTable>> \o [i \in 1..Len(bb.ImmutableMem) |->
                           bb.ImmutableMem[Len(bb.ImmutableMem) + 1 - i]]

\* the lookups of tryMemory, under the read lock
tryMemory(c) ==
    /\ up
    /\ clients[c].pc = "mem"
    /\ LET k == clients[c].op.key
           srcs == MemorySources
           hits == { i \in 1..Len(srcs) : k \in DOMAIN memTables[srcs[i]].data }
       IN  IF hits # {}
           THEN LET first == CHOOSE i \in hits : \A j \in hits : i <= j
                IN  clients' = [clients EXCEPT ![c] =
                        [@ EXCEPT !.pc = "send", !.src = "memory",
                                  !.found = memTables[srcs[first]].data[k]]]
           ELSE clients' = [clients EXCEPT ![c] = [@ EXCEPT !.pc = "level", !.L = 1]]
    /\ UNCHANGED <<cfg, now, nextId, up, crashes, bb, memTables, walFiles, sstFiles,
                   queues, workers, flushAgent, compactionAgent, acked, pairs,
                   lastFlush, harnessVars>>

\* where the read goes on after level L (1-based) gave nothing: levels 3 and
\* 4 are never assigned, so the not-found answer follows level 2 at once
AfterLevel(c, L) ==
    IF L < 2 THEN [clients[c] EXCEPT !.pc = "level", !.L = L + 1,
                                    !.found = NoEntry, !.src = "none",
                                    !.level = <<>>, !.i = 0]
    ELSE Answered(c, NotFound)

\* sendEntry or processEntry on the entry found
answerFound(c) ==
    /\ up
    /\ clients[c].pc = "send"
    /\ LET e == clients[c].found
           h == IF cfg.GetHandler = "processEntry"
                THEN processEntry(e, now) ELSE sendEntry(e, now)
       IN  IF h.handled /\ h.ok
           THEN /\ bb' = [bb EXCEPT !.KeyCache =
                       Insert(@, cfg.KeyCacheCapacityCount, e.Key, e.Value,
                              e.ExpiryTimestamp)]
                /\ clients' = [clients EXCEPT ![c] =
                       Answered(c, [ok |-> TRUE, value |-> e.Value,
                                    exp |-> e.ExpiryTimestamp, at |-> now,
                                    src |-> clients[c].src])]
           ELSE IF h.handled
           THEN /\ clients' = [clients EXCEPT ![c] = Answered(c, NotFound)]
                /\ UNCHANGED bb
           ELSE /\ clients' = [clients EXCEPT ![c] =
                       IF clients[c].src = "memory" THEN AfterLevel(c, 0)
                       ELSE AfterLevel(c, clients[c].L)]
                /\ UNCHANGED bb
    /\ UNCHANGED <<cfg, now, nextId, up, crashes, memTables, walFiles, sstFiles,
                   queues, workers, flushAgent, compactionAgent, acked, pairs,
                   lastFlush, harnessVars>>

\* tryDisk reads the slice of one level
readLevel(c) ==
    /\ up
    /\ clients[c].pc = "level"
    /\ LET level == bb.SSTables[clients[c].L]
       IN  clients' = [clients EXCEPT ![c] =
               IF Len(level) = 0 THEN AfterLevel(c, clients[c].L)
               ELSE [@ EXCEPT !.pc = "find", !.level = level, !.i = Len(level)]]
    /\ UNCHANGED <<cfg, now, nextId, up, crashes, bb, memTables, walFiles, sstFiles,
                   queues, workers, flushAgent, compactionAgent, acked, pairs,
                   lastFlush, harnessVars>>

\* one iteration of searchLevel: the bloom test and FindInSSTable
searchLevel(c) ==
    /\ up
    /\ clients[c].pc = "find"
    /\ LET k == clients[c].op.key
           meta == clients[c].level[clients[c].i]
           r == FindInSSTable(meta, sstFiles, k)
       IN  clients' = [clients EXCEPT ![c] =
               IF <<meta.FileID, k>> \in bb.BloomFilter /\ r.found
               THEN [@ EXCEPT !.pc = "send", !.src = "sst", !.found = r.entry]
               ELSE IF clients[c].i > 1 THEN [@ EXCEPT !.i = @ - 1]
               ELSE AfterLevel(c, clients[c].L)]
    /\ UNCHANGED <<cfg, now, nextId, up, crashes, bb, memTables, walFiles, sstFiles,
                   queues, workers, flushAgent, compactionAgent, acked, pairs,
                   lastFlush, harnessVars>>

(***************************************************************************)
(* Environment: time, crash, reopen                                        *)
(***************************************************************************)
Tick(limit) ==
    /\ now < limit
    /\ now' = now + 1
    /\ UNCHANGED <<cfg, nextId, up, crashes, bb, memTables, walFiles, sstFiles,
                   queues, workers, clients, flushAgent, compactionAgent, acked,
                   pairs, lastFlush, harnessVars>>

RECURSIVE Requests(_, _)
Requests(f, dom) ==
    IF dom = {} THEN <<>>
    ELSE LET x == CHOOSE x \in dom : TRUE IN f[x] \o Requests(f, dom \ {x})

\* the items of the groups waiting in a BatchQueue
RECURSIVE BatchItems(_)
BatchItems(q) == IF q = <<>> THEN <<>> ELSE Head(q).Items \o BatchItems(Tail(q))

\* the process dies: memory is gone, the files stay
Crash(limit) ==
    /\ up
    /\ crashes < limit
    /\ up' = FALSE
    /\ crashes' = crashes + 1
    /\ bb' = NewSystemState(NoTable)
    /\ memTables' = EmptyMap
    /\ acked' = LET inFlight == Requests(queues, DOMAIN queues)
                                 \o Requests([s \in DOMAIN batchQueues |->
                                                 BatchItems(batchQueues[s])],
                                             DOMAIN batchQueues)
                                 \o Requests([w \in DOMAIN workers |-> workers[w].batch],
                                             DOMAIN workers)
                 IN  [k \in DOMAIN acked |->
                         [Unsure(acked, inFlight)[k] EXCEPT !.crashed = TRUE]]
    /\ queues' = [s \in DOMAIN queues |-> <<>>]
    /\ batchQueues' = [s \in DOMAIN batchQueues |-> <<>>]
    /\ batchCalls' = [x \in DOMAIN batchCalls |-> IdleCall(batchCalls[x].left)]
    /\ workers' = [w \in DOMAIN workers |-> IdleWorker]
    /\ clients' = [c \in DOMAIN clients |-> IdleClient(clients[c].left)]
    /\ flushAgent' = IdleFlush
    /\ compactionAgent' = IdleCompaction
    /\ pairs' = {}
    /\ lastFlush' = NoFlush
    /\ UNCHANGED <<cfg, now, nextId, walFiles, sstFiles, walVars, mergeVars, unitVars>>

RECURSIVE PutAll(_, _)
PutAll(t, entries) ==
    IF entries = <<>> THEN t ELSE PutAll(MemPut(t, Head(entries)), Tail(entries))

\* main on restart: NewSystemState, NewDiskWAL on the configured path, Replay
\* into the memtable, the agents started
Recover ==
    /\ ~up
    /\ up' = TRUE
    /\ LET mem == nextId
           file == IF BaseWalPath \in DOMAIN walFiles THEN walFiles[BaseWalPath]
                   ELSE <<>>
       IN  IF cfg.EnableDiskDurability
           THEN /\ bb' = [NewSystemState(mem) EXCEPT !.ActiveWal = BaseWalPath]
                /\ walFiles' = MapPut(walFiles, BaseWalPath, file)
                /\ memTables' = MapPut(EmptyMap, mem,
                                       PutAll(NewMemoryTable, Replay(file).visited))
                /\ pairs' = { <<mem, BaseWalPath>> }
           ELSE /\ bb' = NewSystemState(mem)
                /\ memTables' = MapPut(EmptyMap, mem, NewMemoryTable)
                /\ pairs' = { <<mem, NilWal>> }
                /\ UNCHANGED walFiles
    /\ nextId' = nextId + 1
    /\ openErr' = "nil"
    /\ UNCHANGED <<cfg, now, crashes, sstFiles, queues, workers, clients,
                   flushAgent, compactionAgent, acked, lastFlush, walVars,
                   mergeVars, memUnitVars, bloomUnitVars, sstUnitVars, lruUnitVars,
                   replyVars, drainVars, batchVars>>

\* Run of src/unnamed/part_020 on restart: recoverWal returns the error of
\* Replay and Run returns it before startAgents, so the process ends; with
\* a nil error it is the opening above
RecoverRun ==
    /\ ~up
    /\ cfg.EnableDiskDurability
    /\ LET mem == nextId
           file == IF BaseWalPath \in DOMAIN walFiles THEN walFiles[BaseWalPath]
                   ELSE <<>>
       IN  /\ walFiles' = MapPut(walFiles, BaseWalPath, file)
           /\ IF Replay(file).err = "nil"
              THEN /\ up' = TRUE
                   /\ bb' = [NewSystemState(mem) EXCEPT !.ActiveWal = BaseWalPath]
                   /\ memTables' = MapPut(EmptyMap, mem,
                                          PutAll(NewMemoryTable, Replay(file).visited))
                   /\ pairs' = { <<mem, BaseWalPath>> }
                   /\ nextId' = nextId + 1
                   /\ openErr' = "nil"
              ELSE /\ openErr' = "replay"
                   /\ UNCHANGED <<up, bb, memTables, pairs, nextId>>
    /\ UNCHANGED <<cfg, now, crashes, sstFiles, queues, workers, clients,
                   flushAgent, compactionAgent, acked, lastFlush, walVars,
                   mergeVars, memUnitVars, bloomUnitVars, sstUnitVars, lruUnitVars,
                   replyVars, drainVars, batchVars>>

(***************************************************************************)
(* The DiskWAL harness                                                     *)
(***************************************************************************)
NoReplay == [visited |-> <<>>, err |-> "none"]

\* Entries the harness writes: a live value; a tombstone with a two-byte key,
\* an empty value and an expiry; an empty key with a two-byte value and an
\* expiry that needs two bytes.
WalEntries ==
    { Entry(<<97>>, <<120>>, 0, FALSE),
      Entry(<<97, 98>>, <<>>, 7, TRUE),
      Entry(<<>>, <<120, 121>>, 300, FALSE) }

WalBatches == UNION { [1..n -> WalEntries] : n \in 1..MaxBatchLen }

GarbageBytes == {0, 255}
Garbage == UNION { [1..n -> GarbageBytes] : n \in 1..MaxTail }

\* The longest prefix of a batch whose encoding fits in the first n bytes.
RECURSIVE WhollyWritten(_, _)
WhollyWritten(batch, n) ==
    IF batch = <<>> \/ Len(EncodeEntry(Head(batch))) > n THEN <<>>
    ELSE <<Head(batch)>> \o WhollyWritten(Tail(batch), n - Len(EncodeEntry(Head(batch))))

WalAtRest ==
    /\ tFile = <<>>
    /\ tPc = "open"
    /\ tAcked = <<>>
    /\ tBatches = 0
    /\ tComplete = <<>>
    /\ tTail = <<>>
    /\ tFailed = FALSE
    /\ tReopened = FALSE
    /\ tReplay = NoReplay

MergeAtRest ==
    /\ mTables = <<>>
    /\ mOut = <<>>
    /\ mPc = "input"

MemUnitAtRest ==
    /\ pTable = <<>>
    /\ pPuts = 0
    /\ pThreads = <<>>
    /\ pTotalSize = 0

BloomUnitAtRest ==
    /\ fBloom = <<>>
    /\ fAdded = {}

SstUnitAtRest ==
    /\ sEntries = <<>>
    /\ sFile = <<>>
    /\ sMeta = <<>>
    /\ sRead = <<>>
    /\ sPc = "input"

LruUnitAtRest ==
    /\ lCache = <<>>
    /\ lUsed = <<>>
    /\ lClock = 0
    /\ lLast = <<>>

OpenAtRest == openErr = "nil"

ReplyAtRest ==
    /\ respChans = <<>>
    /\ respChanPool = {}
    /\ respChanHeld = EmptyMap

DrainAtRest ==
    /\ dQueue = <<>>
    /\ dBatch = <<>>
    /\ dCount = 0
    /\ dPc = "call"
    /\ dQueued = <<>>
    /\ dBatch0 = <<>>
    /\ dSent = 0

UnitAtRest ==
    MemUnitAtRest /\ BloomUnitAtRest /\ SstUnitAtRest /\ LruUnitAtRest /\ OpenAtRest
        /\ ReplyAtRest /\ DrainAtRest

\* the engine as the test factory configures it, with no client
EngineAtRest ==
    EngineInit(SystemConfiguration(TRUE, 1048576, 2, 1, 1, "sendEntry"), 0, 0, {})

InitWal == WalAtRest /\ MergeAtRest /\ UnitAtRest /\ EngineAtRest

\* WriteBatch returns nil: the whole buffer is appended by one write.
TWriteBatch(batch) ==
    /\ tPc = "open"
    /\ tTail = <<>>
    /\ Len(tComplete) + Len(batch) <= MaxRecords
    /\ tFile' = tFile \o EncodeBatch(batch)
    /\ tAcked' = tAcked \o batch
    /\ tBatches' = tBatches + 1
    /\ tComplete' = tComplete \o batch
    /\ tReplay' = NoReplay
    /\ tReopened' = FALSE
    /\ UNCHANGED <<tPc, tTail, tFailed, mergeVars, unitVars,
                   engineVars>>

\* WriteBatch returns the error of file.Write, which stored only the first
\* n bytes of the buffer.
TWriteBatchFails(batch, n) ==
    /\ tPc = "open"
    /\ tTail = <<>>
    /\ Len(tComplete) + Len(batch) <= MaxRecords
    /\ n < Len(EncodeBatch(batch))
    /\ LET whole == WhollyWritten(batch, n)
           written == SubSeq(EncodeBatch(batch), 1, n)
       IN  /\ tFile' = tFile \o written
           /\ tComplete' = tComplete \o whole
           /\ tTail' = SubSeq(written, Len(EncodeBatch(whole)) + 1, n)
    /\ tFailed' = TRUE
    /\ tReopened' = FALSE
    /\ tReplay' = NoReplay
    /\ UNCHANGED <<tPc, tAcked, tBatches, mergeVars, unitVars,
                   engineVars>>

TClose ==
    /\ tPc = "open"
    /\ tPc' = "closed"
    /\ tReplay' = NoReplay
    /\ UNCHANGED <<tFile, tAcked, tBatches, tComplete, tTail, tFailed, tReopened, mergeVars, unitVars,
                   engineVars>>

\* Bytes appended to the closed file from outside the engine.
TAppendGarbage(g) ==
    /\ tPc = "closed"
    /\ tTail = <<>>
    /\ tFile' = tFile \o g
    /\ tTail' = g
    /\ UNCHANGED <<tPc, tAcked, tBatches, tComplete, tFailed, tReopened, tReplay, mergeVars, unitVars,
                   engineVars>>

\* NewDiskWAL on the same path: O_APPEND|O_CREATE|O_RDWR keeps the content.
TReopen ==
    /\ tPc = "closed"
    /\ tPc' = "open"
    /\ tReopened' = TRUE
    /\ UNCHANGED <<tFile, tAcked, tBatches, tComplete, tTail, tFailed, tReplay, mergeVars, unitVars,
                   engineVars>>

TReplay ==
    /\ tPc = "open"
    /\ tReplay' = Replay(tFile)
    /\ UNCHANGED <<tFile, tPc, tAcked, tBatches, tComplete, tTail, tFailed, tReopened, mergeVars, unitVars,
                   engineVars>>

NextWal ==
    \/ \E batch \in WalBatches : TWriteBatch(batch)
    \/ \E batch \in WalBatches : \E n \in 0..(23 * MaxBatchLen) : TWriteBatchFails(batch, n)
    \/ TClose
    \/ \E g \in Garbage : TAppendGarbage(g)
    \/ TReopen
    \/ TReplay

SpecWal == InitWal /\ [][NextWal]_vars

(***************************************************************************)
(* C5: a WAL file made of n complete records followed by bytes that do not *)
(* form a complete record is replayed as exactly those n records, in file  *)
(* order and field for field, and Replay then returns an error; with no    *)
(* trailing bytes it visits the n records and returns nil.                 *)
(***************************************************************************)
WalPrefixRecovery ==
    tReplay # NoReplay =>
        /\ tReplay.visited = tComplete
        /\ (tTail # <<>> => tReplay.err # "nil")
        /\ (tTail = <<>> => tReplay.err = "nil")

WalPrefixRecoveryWitness ==
    /\ tReplay # NoReplay
    /\ Len(tComplete) = MaxRecords
    /\ Len(tReplay.visited) = MaxRecords
    /\ tTail # <<>>
    /\ tReplay.err # "nil"

(***************************************************************************)
(* C6: after WriteBatch calls that all returned nil, closing the WAL,      *)
(* reopening the path and replaying visits the concatenation of the        *)
(* batches in write order, every entry with the fields it was written with.*)
(***************************************************************************)
WalRoundTrip ==
    (tReplay # NoReplay /\ ~tFailed /\ tTail = <<>>) =>
        /\ tReplay.visited = tAcked
        /\ tReplay.err = "nil"

WalRoundTripWitness ==
    /\ tReplay # NoReplay
    /\ ~tFailed
    /\ tTail = <<>>
    /\ tReopened
    /\ tBatches >= 2
    /\ tReplay.visited = tAcked
    /\ \E i \in 1..Len(tAcked) : tAcked[i].IsDeleted
    /\ \E i \in 1..Len(tAcked) : tAcked[i].ExpiryTimestamp > 0

(***************************************************************************)
(* Merge harness: level-0 tables as the flush agent writes them (keys      *)
(* strictly ascending inside a table), oldest first; the value byte names  *)
(* the table a record comes from.                                          *)
(***************************************************************************)
MergeKeys == { <<97>>, <<98>> }

KeysAscending(t) == \A i \in 1..(Len(t) - 1) : StringLess(t[i].Key, t[i + 1].Key)

\* the tables index i (1-based) may be: non-empty, sorted, each record either
\* a live value tagged with i or a tombstone
TablesAt(i) ==
    { t \in UNION { [1..n -> { Entry(k, <<48 + i>>, 0, FALSE) : k \in MergeKeys }
                              \cup { Entry(k, <<>>, 0, TRUE) : k \in MergeKeys }]
                    : n \in 1..Cardinality(MergeKeys) } : KeysAscending(t) }

\* the sequences of n tables whose i-th table is one of TablesAt(i)
RECURSIVE TableSequences(_)
TableSequences(n) ==
    IF n = 0 THEN { <<>> }
    ELSE { Append(ts, t) : ts \in TableSequences(n - 1), t \in TablesAt(n) }

MergeInputs == UNION { TableSequences(n) : n \in 1..MaxTables }

InitMerge ==
    /\ mTables \in MergeInputs
    /\ mOut = <<>>
    /\ mPc = "input"
    /\ WalAtRest
    /\ UnitAtRest
    /\ EngineAtRest

MRunMerge ==
    /\ mPc = "input"
    /\ mOut' = mergeIterators(mTables)
    /\ mPc' = "merged"
    /\ UNCHANGED <<mTables, walVars, unitVars, engineVars>>

NextMerge == MRunMerge

SpecMerge == InitMerge /\ [][NextMerge]_vars

KeysOf(t) == { t[i].Key : i \in 1..Len(t) }

\* the record of the newest input table that holds key k
NewestRecord(ts, k) ==
    LET i == CHOOSE i \in 1..Len(ts) :
                 /\ k \in KeysOf(ts[i])
                 /\ \A j \in (i + 1)..Len(ts) : k \notin KeysOf(ts[j])
    IN  ts[i][CHOOSE x \in 1..Len(ts[i]) : ts[i][x].Key = k]

(***************************************************************************)
(* C10: compaction is last-writer-wins: the merged output holds exactly    *)
(* one record for each key of the union of the inputs, and it is the       *)
(* record of the newest (highest index) input table that holds the key.    *)
(***************************************************************************)
MergeLastWriterWins ==
    mPc = "merged" =>
        /\ KeysOf(mOut) = UNION { KeysOf(mTables[i]) : i \in 1..Len(mTables) }
        /\ \A x, y \in 1..Len(mOut) : mOut[x].Key = mOut[y].Key => x = y
        /\ \A x \in 1..Len(mOut) : mOut[x] = NewestRecord(mTables, mOut[x].Key)

\* the keys held by any of the input tables
MergedKeys(ts) == UNION { KeysOf(ts[i]) : i \in 1..Len(ts) }

(***************************************************************************)
(* C11: compaction never drops a key or a tombstone: the key set of the    *)
(* merged output equals the union of the input key sets, the output keys   *)
(* are strictly ascending, and a key whose newest version is a tombstone   *)
(* is written to the output as a tombstone.                                *)
(***************************************************************************)
MergeKeepsKeysAndTombstones ==
    mPc = "merged" =>
        /\ KeysOf(mOut) = MergedKeys(mTables)
        /\ KeysAscending(mOut)
        /\ \A k \in MergedKeys(mTables) :
               NewestRecord(mTables, k).IsDeleted =>
                   \E x \in 1..Len(mOut) : mOut[x].Key = k /\ mOut[x].IsDeleted

\* the two parts of C11 that do not depend on which version wins
MergeKeepsKeys ==
    mPc = "merged" =>
        /\ KeysOf(mOut) = MergedKeys(mTables)
        /\ KeysAscending(mOut)

(***************************************************************************)
(* One client thread issuing Put, Delete and Get against the running       *)
(* engine, with the flush and compaction agents and the clock.             *)
(***************************************************************************)
MaxOps == 3          \* operations the client thread issues
MaxTime == 2         \* seconds the clock may advance

ReadKeys == { <<97>> }
ReadValues == { <<49>>, <<50>> }
ReadTTLs == { 0, 1 }
GetHandlers == { "sendEntry", "processEntry" }

\* a Put of one 1-byte key and 1-byte value fills the memtable (18 bytes);
\* a tombstone (17 bytes) does not
InitRead ==
    /\ WalAtRest
    /\ MergeAtRest
    /\ UnitAtRest
    /\ \E h \in GetHandlers :
           EngineInit(SystemConfiguration(TRUE, 18, 2, 1, 1, h), 1, MaxOps, ReadKeys)

WorkerStep(w) ==
    \/ runShard(w)
    \/ writeWalIfEnabled(w)
    \/ applyToMemTable(w)
    \/ checkSize(w)
    \/ checkAndRotate(w)

FlushStep == waitForFlush \/ processFlush \/ commitFlush

CompactionStep == checkAndRunCompaction \/ performMerge \/ commitCompaction

GetStep(c) == tryMemory(c) \/ answerFound(c) \/ readLevel(c) \/ searchLevel(c)

NextRead ==
    \/ \E c \in DOMAIN clients, k \in ReadKeys, v \in ReadValues, ttl \in ReadTTLs :
           SubmitIngestionRequest(c, k, v, ttl, FALSE)
    \/ \E c \in DOMAIN clients, k \in ReadKeys :
           SubmitIngestionRequest(c, k, <<>>, 0, TRUE)
    \/ \E c \in DOMAIN clients, k \in ReadKeys : HandleGetRequest(c, k)
    \/ \E c \in DOMAIN clients : GetStep(c)
    \/ \E w \in DOMAIN workers : WorkerStep(w)
    \/ FlushStep
    \/ CompactionStep
    \/ Tick(MaxTime)

SpecRead == InitRead /\ [][NextRead]_vars

\* the client thread has just been answered a Get
GotAnswer(c) == clients[c].pc = "idle" /\ clients[c].op.kind = "get"

(***************************************************************************)
(* C1: read-your-writes for one client thread: a Get(k) issued immediately *)
(* after an acknowledged Put(k, v, ttl) returns v, provided the entry has  *)
(* not expired.                                                            *)
(***************************************************************************)
ReadYourWrites ==
    \A c \in DOMAIN clients :
        (/\ GotAnswer(c)
         /\ clients[c].prev.kind = "put"
         /\ clients[c].prev.ok
         /\ clients[c].prev.key = clients[c].op.key
         /\ LET e == acked[clients[c].op.key].last
            IN  e.ExpiryTimestamp = 0 \/ clients[c].served.at <= e.ExpiryTimestamp)
        => (/\ clients[c].served.ok
            /\ clients[c].served.value = acked[clients[c].op.key].last.Value)

(***************************************************************************)
(* C8: a tombstone masks every older version: after an acknowledged Put(k) *)
(* followed by an acknowledged Delete(k), Get(k) returns not-found,        *)
(* wherever the older value lives.                                         *)
(***************************************************************************)
TombstoneMasks ==
    \A c \in DOMAIN clients :
        (/\ GotAnswer(c)
         /\ acked[clients[c].op.key].last.IsDeleted
         /\ acked[clients[c].op.key].hadPut)
        => ~clients[c].served.ok

(***************************************************************************)
(* C9: expiry is honoured on every read: Get never returns a value whose   *)
(* entry has an expiry > 0 that the clock has passed, whichever source     *)
(* serves it.                                                              *)
(***************************************************************************)
ExpiryHonoured ==
    \A c \in DOMAIN clients :
        (GotAnswer(c) /\ clients[c].served.ok)
        => ~(clients[c].served.exp > 0 /\ clients[c].served.at > clients[c].served.exp)

\* the level-0 tables the running compaction has taken, when they are the
\* newest place that holds key k: no memtable and no newer level-0 table has it
CapturedHolds(k) ==
    /\ compactionAgent.pc \in {"merge", "commit"}
    /\ \E i \in 1..Len(compactionAgent.tables) :
           FindInSSTable(compactionAgent.tables[i], sstFiles, k).found
    /\ \A t \in {bb.MemTable} \cup {bb.ImmutableMem[i] : i \in 1..Len(bb.ImmutableMem)} :
           k \notin DOMAIN memTables[t].data
    /\ \A i \in 1..Len(bb.SSTables[1]) :
           ~FindInSSTable(bb.SSTables[1][i], sstFiles, k).found

\* the newest version of k among the captured tables (the last one flushed)
CapturedNewest(k) ==
    LET tables == compactionAgent.tables
        i == CHOOSE i \in 1..Len(tables) :
                 /\ FindInSSTable(tables[i], sstFiles, k).found
                 /\ \A j \in (i + 1)..Len(tables) :
                        ~FindInSSTable(tables[j], sstFiles, k).found
    IN  FindInSSTable(tables[i], sstFiles, k).entry

(***************************************************************************)
(* C12: reads are unaffected by a running compaction: while an L0->L1      *)
(* compaction runs (level 0 taken, merge under way or done, commit not yet *)
(* made), a Get(k) whose newest version is a live value in a captured      *)
(* level-0 table is answered with that value, never with not-found or an   *)
(* older value.                                                            *)
(***************************************************************************)
ReadsDuringCompaction ==
    \A c \in DOMAIN clients :
        (/\ GotAnswer(c)
         /\ CapturedHolds(clients[c].op.key)
         /\ LET e == CapturedNewest(clients[c].op.key)
            IN  /\ ~e.IsDeleted
                /\ e.ExpiryTimestamp = 0 \/ clients[c].served.at <= e.ExpiryTimestamp)
        => (/\ clients[c].served.ok
            /\ clients[c].served.value = CapturedNewest(clients[c].op.key).Value)

\* the same reads when no compaction has taken the tables: a Get whose key
\* was last written with a live value is answered with that value
ReadsSeeNewest ==
    \A c \in DOMAIN clients :
        (/\ GotAnswer(c)
         /\ acked[clients[c].op.key].last # NoEntry
         /\ LET e == acked[clients[c].op.key].last
            IN  /\ ~e.IsDeleted
                /\ e.ExpiryTimestamp = 0 \/ clients[c].served.at <= e.ExpiryTimestamp)
        => (/\ clients[c].served.ok
            /\ clients[c].served.value = acked[clients[c].op.key].last.Value)

(***************************************************************************)
(* One client thread, a crash of the process and the reopening of the      *)
(* engine on the files the crash left.                                     *)
(***************************************************************************)
MaxCrashes == 1      \* crashes of the process

InitCrash ==
    /\ WalAtRest
    /\ MergeAtRest
    /\ UnitAtRest
    /\ EngineInit(SystemConfiguration(TRUE, 18, 2, 1, 1, "sendEntry"), 1, MaxOps,
                  ReadKeys)

NextCrash ==
    \/ \E c \in DOMAIN clients, k \in ReadKeys, v \in ReadValues :
           SubmitIngestionRequest(c, k, v, 0, FALSE)
    \/ \E c \in DOMAIN clients, k \in ReadKeys : HandleGetRequest(c, k)
    \/ \E c \in DOMAIN clients : GetStep(c)
    \/ \E w \in DOMAIN workers : WorkerStep(w)
    \/ FlushStep
    \/ CompactionStep
    \/ Crash(MaxCrashes)
    \/ Recover

SpecCrash == InitCrash /\ [][NextCrash]_vars

(***************************************************************************)
(* C2: crash durability: with durability enabled, once Put(k, v) returned  *)
(* success, a crash at any later point followed by a reopening leaves      *)
(* Get(k) returning v, when no later write to k was submitted and the      *)
(* entry has no expiry.                                                    *)
(***************************************************************************)
CrashDurability ==
    \A c \in DOMAIN clients :
        (/\ GotAnswer(c)
         /\ cfg.EnableDiskDurability
         /\ LET a == acked[clients[c].op.key]
            IN  /\ a.crashed
                /\ a.sure
                /\ a.last # NoEntry
                /\ ~a.last.IsDeleted
                /\ a.last.ExpiryTimestamp = 0)
        => (/\ clients[c].served.ok
            /\ clients[c].served.value = acked[clients[c].op.key].last.Value)

(***************************************************************************)
(* Two client threads and two shard workers with rotations, failing WAL    *)
(* opens and the flush agent.  Keys "a" and "b" hash to different shards.  *)
(***************************************************************************)
MaxRotateOps == 2    \* Puts each of the two client threads issues

RotateKeys == { <<97>>, <<98>> }

InitRotate ==
    /\ WalAtRest
    /\ MergeAtRest
    /\ UnitAtRest
    /\ EngineInit(SystemConfiguration(TRUE, 18, 2, 1, 2, "sendEntry"), 2,
                  MaxRotateOps, RotateKeys)

NextRotate ==
    \/ \E c \in DOMAIN clients, k \in RotateKeys :
           SubmitIngestionRequest(c, k, <<49>>, 0, FALSE)
    \/ \E w \in DOMAIN workers : WorkerStep(w)
    \/ \E w \in DOMAIN workers : checkAndRotateWalFails(w)
    \/ FlushStep

SpecRotate == InitRotate /\ [][NextRotate]_vars

(***************************************************************************)
(* C3: rotation is atomic with respect to concurrent ingestion workers:    *)
(* for every acknowledged batch, the WAL that holds its records and the    *)
(* memtable that holds its entries were active together; no WAL record     *)
(* lands in the frozen WAL while its entry lands in the next memtable.     *)
(***************************************************************************)
RotationAtomic ==
    \A w \in DOMAIN workers :
        (workers[w].pc = "idle" /\ workers[w].wal # NilWal)
        => \A m \in workers[w].mems : <<m, workers[w].wal>> \in pairs

(***************************************************************************)
(* C4: frozen WALs pair 1:1 with immutable memtables: the two queues have  *)
(* the same length, the i-th frozen WAL was active while the i-th          *)
(* immutable memtable was active, and the WAL a flush commit deletes is    *)
(* the one paired with the memtable it wrote.                              *)
(***************************************************************************)
FrozenWalsPaired ==
    cfg.EnableDiskDurability =>
        /\ Len(bb.FrozenWALs) = Len(bb.ImmutableMem)
        /\ \A i \in 1..Len(bb.FrozenWALs) :
               i <= Len(bb.ImmutableMem)
               => <<bb.ImmutableMem[i], bb.FrozenWALs[i]>> \in pairs
        /\ lastFlush.mem # NoTable
           => (lastFlush.wal # NilWal /\ <<lastFlush.mem, lastFlush.wal>> \in pairs)

(***************************************************************************)
(* Client threads putting pairwise distinct keys through two shard         *)
(* workers into one WAL; the memtable never fills, so nothing rotates.     *)
(***************************************************************************)
NumIngestClients == 2    \* client threads
MaxPutsPerClient == 2    \* Puts each client thread issues

\* the key and value of the j-th Put of client c, as the integrity test
\* names them
IngestKey(c, j) == <<96 + c, 48 + j>>
IngestValue(c, j) == <<118, 48 + c, 48 + j>>

IngestKeys ==
    { IngestKey(c, j) : c \in 1..NumIngestClients, j \in 1..MaxPutsPerClient }

Issued(c) == MaxPutsPerClient - clients[c].left

Returned(c) == Issued(c) - (IF clients[c].pc = "put" THEN 1 ELSE 0)

InitIngest ==
    /\ WalAtRest
    /\ MergeAtRest
    /\ UnitAtRest
    /\ EngineInit(SystemConfiguration(TRUE, 1048576, 2, 1, 2, "sendEntry"),
                  NumIngestClients, MaxPutsPerClient, IngestKeys)

NextIngest ==
    \/ \E c \in DOMAIN clients :
           SubmitIngestionRequest(c, IngestKey(c, Issued(c) + 1),
                                  IngestValue(c, Issued(c) + 1), 0, FALSE)
    \/ \E w \in DOMAIN workers : runShard(w)
    \/ \E w \in DOMAIN workers : writeWalIfEnabled(w)
    \/ \E w \in DOMAIN workers : applyToMemTable(w)
    \/ \E w \in DOMAIN workers : checkSize(w)

SpecIngest == InitIngest /\ [][NextIngest]_vars

IngestRecord(c, j) == Entry(IngestKey(c, j), IngestValue(c, j), 0, FALSE)

(***************************************************************************)
(* C7: concurrent write integrity: while client threads put pairwise       *)
(* distinct keys and every call succeeds, with no rotation, the active WAL *)
(* decodes without error into complete records; every Put that returned    *)
(* has exactly one record, every record is the record of a submitted Put,  *)
(* and no record appears twice.                                            *)
(***************************************************************************)
ConcurrentWriteIntegrity ==
    LET r == Replay(walFiles[bb.ActiveWal])
    IN  /\ r.err = "nil"
        /\ \A c \in DOMAIN clients : \A j \in 1..Returned(c) :
               Cardinality({ i \in 1..Len(r.visited) :
                               r.visited[i] = IngestRecord(c, j) }) = 1
        /\ \A i \in 1..Len(r.visited) :
               \E c \in DOMAIN clients : \E j \in 1..Issued(c) :
                   r.visited[i] = IngestRecord(c, j)
        /\ \A i, j \in 1..Len(r.visited) :
               r.visited[i].Key = r.visited[j].Key => i = j

\* every Put has returned success, and the records are not in client order
ConcurrentWriteIntegrityWitness ==
    /\ \A c \in DOMAIN clients :
           clients[c].pc = "idle" /\ clients[c].left = 0 /\ clients[c].op.ok
    /\ Len(Replay(walFiles[bb.ActiveWal]).visited)
           = NumIngestClients * MaxPutsPerClient
    /\ Replay(walFiles[bb.ActiveWal]).visited[1].Key = IngestKey(NumIngestClients, 1)
    /\ bb.ImmutableMem = <<>>
    /\ Cardinality(DOMAIN clients) = NumIngestClients

(***************************************************************************)
(* One client thread whose every Put fills the memtable, the ingestion     *)
(* worker and the flush agent, which is scheduled fairly; SST writes       *)
(* succeed, the opening of a rotated WAL may fail.                         *)
(***************************************************************************)
MaxFlushOps == 3     \* Puts the client thread issues, each one a rotation

InitFlush ==
    /\ WalAtRest
    /\ MergeAtRest
    /\ UnitAtRest
    /\ EngineInit(SystemConfiguration(TRUE, 18, 2, 1, 1, "sendEntry"), 1,
                  MaxFlushOps, ReadKeys)

\* every Put of the thread carries a value of its own
FlushValue(c) == <<48 + clients[c].left>>

NextFlush ==
    \/ \E c \in DOMAIN clients, k \in ReadKeys :
           SubmitIngestionRequest(c, k, FlushValue(c), 0, FALSE)
    \/ \E w \in DOMAIN workers : WorkerStep(w)
    \/ \E w \in DOMAIN workers : checkAndRotateWalFails(w)
    \/ waitForFlush
    \/ processFlush
    \/ commitFlush

\* the flush goroutine runs for ever and is never starved of the engine lock
FlushFairness ==
    /\ WF_vars(waitForFlush)
    /\ WF_vars(processFlush)
    /\ WF_vars(commitFlush)

SpecFlush == InitFlush /\ [][NextFlush]_vars /\ FlushFairness

\* the ids a memtable can have: one rotation takes two ids, one flush one
FlushMemIds == 0..(3 * MaxFlushOps)

InImmutableQueue(m) == \E i \in 1..Len(bb.ImmutableMem) : bb.ImmutableMem[i] = m

\* commitFlush has just committed memtable m: it is off the queue, level 0
\* ends with a table whose file is on disk, and the WAL that was active while
\* m was, once frozen, is deleted
FlushCommitted(m) ==
    /\ lastFlush.mem = m
    /\ ~InImmutableQueue(m)
    /\ Len(bb.SSTables[1]) > 0
    /\ bb.SSTables[1][Len(bb.SSTables[1])].FileID \in DOMAIN sstFiles
    /\ \A pr \in pairs :
           (pr[1] = m /\ pr[2] # bb.ActiveWal) => pr[2] \notin DOMAIN walFiles

(***************************************************************************)
(* C13: every rotated memtable is eventually flushed: once rotation has    *)
(* put a memtable on the immutable queue, the fairly scheduled flush agent *)
(* eventually writes it to a new level-0 SST, takes it off the queue and   *)
(* its frozen WAL is deleted; and the agent never sits in                  *)
(* FlushCondition.Wait() while the queue is non-empty.                     *)
(***************************************************************************)
RotatedEventuallyFlushed ==
    /\ [](~(flushAgent.pc = "parked" /\ Len(bb.ImmutableMem) > 0))
    /\ \A m \in FlushMemIds : InImmutableQueue(m) ~> FlushCommitted(m)

\* the agent parked on the empty queue, was woken by rotations, and has
\* flushed every memtable the Puts rotated out
RotatedEventuallyFlushedWitness ==
    /\ flushAgent.pc = "parked"
    /\ bb.ImmutableMem = <<>>
    /\ bb.FrozenWALs = <<>>
    /\ lastFlush.mem # NoTable
    /\ Len(bb.SSTables[1]) = MaxFlushOps
    /\ \A c \in DOMAIN clients : clients[c].left = 0

(***************************************************************************)
(* One ShardedMemoryTable under Put calls: inserts, overwrites with        *)
(* shorter and longer values, tombstones.  Keys "a" and "ba" fall into     *)
(* the same shard, "b" into another.                                       *)
(***************************************************************************)
MaxMemPuts == 3      \* Put calls made on the table

MemKeys == { <<97>>, <<98, 97>>, <<98>> }
MemValues == { <<>>, <<49>>, <<49, 50>> }

InitMem ==
    /\ pTable = NewShardedMemoryTable
    /\ pPuts = 0
    /\ pThreads = <<>>
    /\ pTotalSize = 0
    /\ WalAtRest
    /\ MergeAtRest
    /\ BloomUnitAtRest
    /\ SstUnitAtRest
    /\ LruUnitAtRest
    /\ EngineAtRest
    /\ OpenAtRest
    /\ ReplyAtRest
    /\ DrainAtRest

\* one call of Put, whole: the shard lock is held from the lookup of the old
\* entry to the second update of the counter
PPut(key, value, expiry, isDeleted) ==
    /\ pPuts < MaxMemPuts
    /\ pTable' = ShardedPut(pTable, key, value, expiry, isDeleted)
    /\ pPuts' = pPuts + 1
    /\ UNCHANGED <<pThreads, pTotalSize>>
    /\ UNCHANGED <<walVars, mergeVars, openVars, replyVars, drainVars, bloomUnitVars, sstUnitVars, lruUnitVars,
                   engineVars>>

NextMem ==
    \/ \E k \in MemKeys, v \in MemValues : PPut(k, v, 0, FALSE)
    \/ \E k \in MemKeys : PPut(k, <<>>, 0, TRUE)

SpecMem == InitMem /\ [][NextMem]_vars

\* the entries the table holds, over all shards
TableEntries(t) ==
    UNION { { t[s].data[k] : k \in DOMAIN t[s].data } : s \in DOMAIN t }

\* sum of len(key) + len(value) + 16 over a set of entries
RECURSIVE SumOfSizes(_)
SumOfSizes(es) ==
    IF es = {} THEN 0
    ELSE LET e == CHOOSE e \in es : TRUE
         IN  Len(e.Key) + Len(e.Value) + 16 + SumOfSizes(es \ {e})

(***************************************************************************)
(* C14: memtable size accounting: after any sequence of Put calls, with no *)
(* Put in progress, Size() equals the sum of len(key) + len(value) + 16    *)
(* over the keys the table holds.                                          *)
(***************************************************************************)
SizeAccounting == Size(pTable) = SumOfSizes(TableEntries(pTable))

\* the shard that holds two keys has had one of them overwritten
SizeAccountingWitness ==
    /\ pPuts = MaxMemPuts
    /\ Cardinality(DOMAIN pTable[getShardID(<<97>>)].data) = 2
    /\ <<97>> \in DOMAIN pTable[getShardID(<<97>>)].data
    /\ pTable[getShardID(<<97>>)].data[<<97>>].Value = <<>>
    /\ Size(pTable) = 17 + 19

(***************************************************************************)
(* One SharedBloomFilter under Add calls.  The filter is the one           *)
(* NewSharedBloomFilter(100, 0.01) builds (7 hashes, 30 bits per shard) or *)
(* the smallest one (1 hash; 64 bits in all, 2 per shard).  Ids 1 and 33   *)
(* share a shard.  Ids are file ids parsed from UnixNano names, or 0; a    *)
(* negative id indexes bf.shards out of range and Add panics.              *)
(***************************************************************************)
BloomShapes == { [hashes |-> 7, bits |-> 30], [hashes |-> 1, bits |-> 2] }
BloomIds == { 0, 1, 33 }
BloomKeys == { <<>>, <<97>>, <<98>> }

InitBloom ==
    /\ \E shape \in BloomShapes :
           fBloom = createBloomStructure(shape.hashes, shape.bits)
    /\ fAdded = {}
    /\ WalAtRest
    /\ MergeAtRest
    /\ MemUnitAtRest
    /\ SstUnitAtRest
    /\ LruUnitAtRest
    /\ EngineAtRest
    /\ OpenAtRest
    /\ ReplyAtRest
    /\ DrainAtRest

FAdd(id, key) ==
    /\ fBloom' = Add(fBloom, id, key)
    /\ fAdded' = fAdded \cup { <<id, key>> }
    /\ UNCHANGED <<walVars, mergeVars, openVars, replyVars, drainVars, memUnitVars, sstUnitVars, lruUnitVars,
                   engineVars>>

NextBloom == \E id \in BloomIds, key \in BloomKeys : FAdd(id, key)

SpecBloom == InitBloom /\ [][NextBloom]_vars

(***************************************************************************)
(* C15: the bloom filter has no false negatives: after any sequence of Add *)
(* calls, over file ids and shards, Contains(id, key) is true for every    *)
(* (id, key) pair that was added.                                          *)
(***************************************************************************)
NoFalseNegatives ==
    \A pr \in fAdded : Contains(fBloom, pr[1], pr[2])

\* pairs were added for two ids of one shard and for an id of another, and
\* the filter also answers true for a pair that was never added
NoFalseNegativesWitness ==
    /\ <<1, <<97>>>> \in fAdded
    /\ <<33, <<97>>>> \in fAdded
    /\ <<0, <<98>>>> \in fAdded
    /\ \A pr \in fAdded : Contains(fBloom, pr[1], pr[2])
    /\ \E id \in BloomIds, key \in BloomKeys :
           <<id, key>> \notin fAdded /\ Contains(fBloom, id, key)

(***************************************************************************)
(* One SST file written from a sorted list of entries with distinct keys   *)
(* and read back, record by record and by key.                             *)
(***************************************************************************)
MaxSstEntries == 2   \* entries in the list written

SstKeys == { <<>>, <<97>>, <<97, 98>>, <<98>> }
SstValues == { <<>>, <<120>>, <<120, 121>> }
SstExpiries == { 0, 300 }

SstEntryChoices ==
    { Entry(k, v, exp, del) :
        k \in SstKeys, v \in SstValues, exp \in SstExpiries, del \in BOOLEAN }

SstInputs ==
    { es \in UNION { [1..n -> SstEntryChoices] : n \in 0..MaxSstEntries } :
        KeysAscending(es) }

InitSst ==
    /\ sEntries \in SstInputs
    /\ sFile = <<>>
    /\ sMeta = <<>>
    /\ sRead = [entries |-> <<>>, off |-> 0]
    /\ sPc = "input"
    /\ WalAtRest
    /\ MergeAtRest
    /\ MemUnitAtRest
    /\ BloomUnitAtRest
    /\ LruUnitAtRest
    /\ EngineAtRest
    /\ OpenAtRest
    /\ ReplyAtRest
    /\ DrainAtRest

SWrite ==
    /\ sPc = "input"
    /\ LET w == WriteSortedStringTableToDisk(sEntries, 1, 0)
       IN  /\ sFile' = w.file
           /\ sMeta' = w.meta
    /\ sPc' = "written"
    /\ UNCHANGED <<sEntries, sRead, walVars, mergeVars, openVars, replyVars, drainVars, memUnitVars, bloomUnitVars,
                   lruUnitVars, engineVars>>

\* NewSSTableReader on the file
SOpen ==
    /\ sPc = "written"
    /\ sRead' = [entries |-> <<>>, off |-> 0]
    /\ sPc' = "reading"
    /\ UNCHANGED <<sEntries, sFile, sMeta, walVars, mergeVars, openVars, replyVars, drainVars, memUnitVars,
                   bloomUnitVars, lruUnitVars, engineVars>>

\* one call of Next
SNext ==
    /\ sPc = "reading"
    /\ LET r == SSTableReaderNext(sFile, sRead.off)
       IN  IF r.ok
           THEN /\ sRead' = [entries |-> Append(sRead.entries, r.entry), off |-> r.off]
                /\ sPc' = sPc
           ELSE /\ sRead' = [sRead EXCEPT !.off = r.off]
                /\ sPc' = "read"
    /\ UNCHANGED <<sEntries, sFile, sMeta, walVars, mergeVars, openVars, replyVars, drainVars, memUnitVars,
                   bloomUnitVars, lruUnitVars, engineVars>>

NextSst == SWrite \/ SOpen \/ SNext

SpecSst == InitSst /\ [][NextSst]_vars

(***************************************************************************)
(* C16: SST write/read round trip: for a list of entries with distinct     *)
(* keys sorted ascending, reading the written file with Next until it      *)
(* returns false yields the same sequence of entries, and FindInSSTable    *)
(* returns the written entry for every written key and (empty, false) for  *)
(* every other key.                                                        *)
(***************************************************************************)
SstRoundTrip ==
    /\ sPc = "read" => sRead.entries = sEntries
    /\ sPc # "input" =>
           \A k \in SstKeys :
               LET r == FindInSSTableAt(sMeta, sFile, k)
               IN  IF k \in KeysOf(sEntries)
                   THEN /\ r.found
                        /\ \E i \in 1..Len(sEntries) : sEntries[i] = r.entry
                   ELSE r = [found |-> FALSE, entry |-> Entry(<<>>, <<>>, 0, FALSE)]

\* a full list with a tombstone, an expiry and an empty key was read back
SstRoundTripWitness ==
    /\ sPc = "read"
    /\ Len(sEntries) = MaxSstEntries
    /\ sRead.entries = sEntries
    /\ sEntries[1].Key = <<>>
    /\ \E i \in 1..Len(sEntries) : sEntries[i].IsDeleted
    /\ \E i \in 1..Len(sEntries) : sEntries[i].ExpiryTimestamp > 0
    /\ \E i \in 1..Len(sEntries) : Len(sEntries[i].Value) = 2

(***************************************************************************)
(* One LruCache under Insert and Retrieve calls.  lUsed is the time of the *)
(* most recent Insert or Retrieve hit of each key, lLast the last call and *)
(* the cache it found.                                                     *)
(***************************************************************************)
MaxLruOps == 4   \* calls made on the cache

LruCapacities == { 1, 2 }
LruKeys == { <<97>>, <<98>>, <<99>> }
LruValues == { <<120>>, <<121>> }

CachedKeys(c) == { c[i].key : i \in 1..Len(c) }

InitLru ==
    /\ \E cap \in LruCapacities :
           lCache = [CapacityCount |-> cap, evictionList |-> <<>>]
    /\ lUsed = <<>>
    /\ lClock = 0
    /\ lLast = [op |-> "NewLruCache", key |-> <<>>, value |-> <<>>, hit |-> FALSE,
                before |-> <<>>, used |-> <<>>]
    /\ WalAtRest
    /\ MergeAtRest
    /\ MemUnitAtRest
    /\ BloomUnitAtRest
    /\ SstUnitAtRest
    /\ EngineAtRest
    /\ OpenAtRest
    /\ ReplyAtRest
    /\ DrainAtRest

Touch(used, k, t) == [j \in DOMAIN used \cup {k} |-> IF j = k THEN t ELSE used[j]]

LInsert(k, v) ==
    /\ lClock < MaxLruOps
    /\ lCache' = [lCache EXCEPT
                     !.evictionList = Insert(@, lCache.CapacityCount, k, v, 0)]
    /\ lClock' = lClock + 1
    /\ lUsed' = Touch(lUsed, k, lClock + 1)
    /\ lLast' = [op |-> "Insert", key |-> k, value |-> v, hit |-> FALSE,
                 before |-> lCache.evictionList, used |-> lUsed]
    /\ UNCHANGED <<walVars, mergeVars, openVars, replyVars, drainVars, memUnitVars, bloomUnitVars, sstUnitVars,
                   engineVars>>

LRetrieve(k) ==
    /\ lClock < MaxLruOps
    /\ LET r == Retrieve(lCache.evictionList, k)
       IN  /\ lCache' = [lCache EXCEPT !.evictionList = r.list]
           /\ lUsed' = IF r.hit THEN Touch(lUsed, k, lClock + 1) ELSE lUsed
           /\ lLast' = [op |-> "Retrieve", key |-> k, value |-> r.item.value, hit |-> r.hit,
                        before |-> lCache.evictionList, used |-> lUsed]
    /\ lClock' = lClock + 1
    /\ UNCHANGED <<walVars, mergeVars, openVars, replyVars, drainVars, memUnitVars, bloomUnitVars, sstUnitVars,
                   engineVars>>

NextLru ==
    \/ \E k \in LruKeys, v \in LruValues : LInsert(k, v)
    \/ \E k \in LruKeys : LRetrieve(k)

SpecLru == InitLru /\ [][NextLru]_vars

\* the cached key whose most recent Insert or Retrieve hit is the oldest
OldestUsed(c, used) ==
    CHOOSE k \in CachedKeys(c) : \A j \in CachedKeys(c) : used[k] <= used[j]

\* the entries of a list without the entry of a key, in order
Others(c, k) == SelectSeq(c, LAMBDA e : e.key # k)

(***************************************************************************)
(* C17: LRU eviction order: in a cache of capacity c >= 1, inserting a new *)
(* key while the cache holds c entries evicts exactly the entry whose most *)
(* recent Insert or Retrieve hit is the oldest; inserting an existing key  *)
(* replaces its value, promotes it to most-recently-used and evicts        *)
(* nothing.                                                                *)
(***************************************************************************)
LruEvictionOrder ==
    lLast.op = "Insert" =>
        LET cur == lCache.evictionList
            was == lLast.before
        IN  IF lLast.key \in CachedKeys(was)
            THEN /\ cur[1].key = lLast.key
                 /\ cur[1].value = lLast.value
                 /\ Tail(cur) = Others(was, lLast.key)
            ELSE /\ cur[1].key = lLast.key
                 /\ cur[1].value = lLast.value
                 /\ IF Len(was) = lCache.CapacityCount
                    THEN Tail(cur) = Others(was, OldestUsed(was, lLast.used))
                    ELSE Tail(cur) = was

\* a full cache of two entries lost the entry used least recently, and kept
\* the other, at the insertion of a third key
LruEvictionOrderWitness ==
    /\ lLast.op = "Insert"
    /\ lCache.CapacityCount = 2
    /\ Len(lLast.before) = 2
    /\ lLast.key \notin CachedKeys(lLast.before)
    /\ OldestUsed(lLast.before, lLast.used) = lLast.before[2].key
    /\ \E k \in CachedKeys(lLast.before) :
           /\ k \in CachedKeys(lCache.evictionList)
           /\ \A j \in CachedKeys(lLast.before) \ {k} :
                  lLast.used[j] < lLast.used[k]
    /\ lClock = MaxLruOps

(***************************************************************************)
(* The same cache under Insert, Retrieve and RemoveFromCache calls.        *)
(***************************************************************************)
LRemove(k) ==
    /\ lClock < MaxLruOps
    /\ lCache' = [lCache EXCEPT !.evictionList = RemoveFromCache(@, k)]
    /\ lClock' = lClock + 1
    /\ lLast' = [op |-> "Remove", key |-> k, value |-> <<>>, hit |-> FALSE,
                 before |-> lCache.evictionList, used |-> lUsed]
    /\ UNCHANGED <<lUsed, walVars, mergeVars, openVars, replyVars, drainVars, memUnitVars, bloomUnitVars,
                   sstUnitVars, engineVars>>

NextLruRemove ==
    \/ \E k \in LruKeys, v \in LruValues : LInsert(k, v)
    \/ \E k \in LruKeys : LRetrieve(k)
    \/ \E k \in LruKeys : LRemove(k)

SpecLruRemove == InitLru /\ [][NextLruRemove]_vars

\* the call just made was RemoveFromCache: the key misses and the list is the
\* former list without the key's entry
RemoveLeavesOthers ==
    lLast.op = "Remove" =>
        /\ ~Retrieve(lCache.evictionList, lLast.key).hit
        /\ lCache.evictionList = Others(lLast.before, lLast.key)

\* a key that misses hits again only after an Insert of that key
MissesUntilInserted ==
    \A k \in LruKeys :
        (/\ ~Retrieve(lCache.evictionList, k).hit
         /\ Retrieve(lCache.evictionList, k).hit')
            => (lLast'.op = "Insert" /\ lLast'.key = k)

(***************************************************************************)
(* C18: LRU Remove: after Remove(k), Retrieve(k) misses until k is         *)
(* inserted again, and every other entry, its value and the relative       *)
(* recency order of the others are unchanged; Remove of a key that is not  *)
(* cached changes nothing.                                                 *)
(***************************************************************************)
LruRemoveFrame == []RemoveLeavesOthers /\ [][MissesUntilInserted]_vars

\* the front entry of a cache of two was removed and the other entry stayed
LruRemoveFrameWitness ==
    /\ lLast.op = "Remove"
    /\ Len(lLast.before) = 2
    /\ lLast.before[1].key = lLast.key
    /\ lCache.evictionList = << lLast.before[2] >>

(***************************************************************************)
(* Two threads that put single keys and one that calls                     *)
(* SubmitBatchIngestion, two shards, a memtable that every Put fills, a    *)
(* WAL whose WriteBatch may fail.                                          *)
(***************************************************************************)
MaxBatchCalls == 1    \* calls of SubmitBatchIngestion
MaxSinglePuts == 1    \* Puts each of the other threads issues
NumPutThreads == 2    \* threads calling SubmitIngestionRequest

\* "a", "c" and "e" hash to shard 0, "b" to shard 1; every Put thread has a
\* key of its own
BatchKeyLists == { <<>>, << <<97>> >>, << <<97>>, <<98>> >> }
SingleKey(c) == <<97 + 2 * c>>

\* the value of the j-th call names the call
BatchValue(k, j) == k \o <<48 + j>>
SingleValue(c, j) == <<115, 48 + c, 48 + j>>

BatchItemsOf(keys, j) ==
    [i \in 1..Len(keys) |-> [Key |-> keys[i], Val |-> BatchValue(keys[i], j), TTL |-> 0]]

CallsMade(x) == MaxBatchCalls - batchCalls[x].left
PutsMade(c) == MaxSinglePuts - clients[c].left

InitBatch ==
    /\ WalAtRest
    /\ MergeAtRest
    /\ UnitAtRest
    /\ EngineInitWith(SystemConfiguration(TRUE, 18, 2, 1, 2, "sendEntry"),
                      NumPutThreads, MaxSinglePuts, { <<97>>, <<98>> } \cup { SingleKey(c) : c \in 1..NumPutThreads },
                      1, MaxBatchCalls)

NextBatch ==
    \/ \E c \in DOMAIN clients :
           SubmitIngestionRequest(c, SingleKey(c), SingleValue(c, PutsMade(c) + 1), 0, FALSE)
    \/ \E x \in DOMAIN batchCalls : \E keys \in BatchKeyLists :
           SubmitBatchIngestion(x, BatchItemsOf(keys, CallsMade(x) + 1))
    \/ \E x \in DOMAIN batchCalls : awaitResponse(x)
    \/ \E w \in DOMAIN workers : runShard(w)
    \/ \E w \in DOMAIN workers : runShardBatch(w)
    \/ \E w \in DOMAIN workers : writeWalIfEnabled(w)
    \/ \E w \in DOMAIN workers : writeWalFails(w)
    \/ \E w \in DOMAIN workers : applyToMemTable(w)
    \/ \E w \in DOMAIN workers : checkSize(w)
    \/ \E w \in DOMAIN workers : checkAndRotate(w)
    \/ \E w \in DOMAIN workers : respondBatch(w)

SpecBatch == InitBatch /\ [][NextBatch]_vars

\* the entries of the batches whose WAL write failed
Aborted == UNION { workers[w].aborted : w \in DOMAIN workers }

InSomeMemTable(e) ==
    \E m \in DOMAIN memTables :
        e.Key \in DOMAIN memTables[m].data /\ memTables[m].data[e.Key] = e

\* the entry of the Put the client thread issued last
LastPut(c) == Entry(SingleKey(c), SingleValue(c, PutsMade(c)), 0, FALSE)

\* the entries of the call the thread made last
LastCall(x) ==
    { Entry(batchCalls[x].items[i].Key, batchCalls[x].items[i].Val, 0, FALSE) :
        i \in 1..Len(batchCalls[x].items) }

\* no entry of a failed batch is in a memtable
AbortedNotApplied == \A e \in Aborted : ~InSomeMemTable(e)

\* the caller of a Put that was in a failed batch has the error
PutCallerHasError ==
    \A c \in DOMAIN clients :
        (PutsMade(c) > 0 /\ LastPut(c) \in Aborted) =>
            (clients[c].pc = "idle" /\ ~clients[c].op.ok)

\* the caller of SubmitBatchIngestion whose group was a failed batch has the
\* error when the call returns
BatchCallerHasError ==
    \A x \in DOMAIN batchCalls :
        (batchCalls[x].pc = "done" /\ LastCall(x) \cap Aborted # {}) =>
            batchCalls[x].finalErr # "nil"

\* the step in which a WAL write fails changes no memtable, no cache entry,
\* and rotates nothing
AbortFrame ==
    (\E w \in DOMAIN workers : workers'[w].aborted # workers[w].aborted) =>
        (memTables' = memTables /\ bb' = bb /\ flushAgent' = flushAgent)

(***************************************************************************)
(* C19: a WAL write failure aborts the whole batch: every caller whose     *)
(* request is in the batch receives the error, none of the batch's entries *)
(* is applied to the memtable, no LRU entry is removed and no rotation is  *)
(* triggered.                                                              *)
(***************************************************************************)
WalFailureAbortsBatch ==
    /\ [](AbortedNotApplied /\ PutCallerHasError /\ BatchCallerHasError)
    /\ [][AbortFrame]_vars

\* what holds: the same for the callers of SubmitIngestionRequest only
WalFailureAbortsDrainedBatch ==
    /\ [](AbortedNotApplied /\ PutCallerHasError)
    /\ [][AbortFrame]_vars

\* a subsequence of bytes of a file
HasInfix(file, bytes) ==
    \E off \in 0..(Len(file) - Len(bytes)) :
        SubSeq(file, off + 1, off + Len(bytes)) = bytes

InSomeWal(e) == \E path \in DOMAIN walFiles : HasInfix(walFiles[path], EncodeEntry(e))

(***************************************************************************)
(* C20: batch ingestion reports failures: SubmitBatchIngestion returns a   *)
(* non-nil error whenever the processing of at least one of its per-shard  *)
(* groups failed, and returns success only if the entries of every group   *)
(* were written to the WAL and applied to the memtable.                    *)
(***************************************************************************)
BatchReportsFailures ==
    \A x \in DOMAIN batchCalls :
        batchCalls[x].pc = "done" =>
            /\ batchCalls[x].failed # {} => batchCalls[x].finalErr # "nil"
            /\ batchCalls[x].finalErr = "nil" =>
                   \A e \in LastCall(x) : InSomeWal(e) /\ InSomeMemTable(e)

\* what holds: the call returns nil whatever happened to its groups
BatchReturnsNil ==
    \A x \in DOMAIN batchCalls : batchCalls[x].finalErr = "nil"

(***************************************************************************)
(* Threads that each put one key of their own, on two shards, a memtable   *)
(* that every Put fills, a WAL whose WriteBatch may fail.                  *)
(***************************************************************************)
NumAckThreads == 3    \* threads calling SubmitIngestionRequest once

\* "c" and "e" hash to shard 0, "d" to shard 1
AckThreads == 1..NumAckThreads
AckKey(c) == <<98 + c>>
AckValue(c, j) == <<118, 48 + c, 48 + j>>

AckPutsMade(c) == 1 - clients[c].left

\* the entry of the Put the thread issued last
AckLastPut(c) == Entry(AckKey(c), AckValue(c, AckPutsMade(c)), 0, FALSE)

InitAck ==
    /\ WalAtRest
    /\ MergeAtRest
    /\ UnitAtRest
    /\ EngineInit(SystemConfiguration(TRUE, 18, 2, 1, 2, "sendEntry"),
                  NumAckThreads, 1,
                  { AckKey(c) : c \in AckThreads })

NextAck ==
    \/ \E c \in DOMAIN clients :
           SubmitIngestionRequest(c, AckKey(c), AckValue(c, AckPutsMade(c) + 1), 0, FALSE)
    \/ \E w \in DOMAIN workers : runShard(w)
    \/ \E w \in DOMAIN workers : writeWalIfEnabled(w)
    \/ \E w \in DOMAIN workers : writeWalFails(w)
    \/ \E w \in DOMAIN workers : loadMemTable(w)
    \/ \E w \in DOMAIN workers : putLoaded(w)
    \/ \E w \in DOMAIN workers : checkSize(w)
    \/ \E w \in DOMAIN workers : checkAndRotate(w)

SpecAck == InitAck /\ [][NextAck]_vars

\* the entries the memtables hold
Applied ==
    UNION { { memTables[m].data[k] : k \in DOMAIN memTables[m].data } :
              m \in DOMAIN memTables }

RotationWithoutNewWal ==
    /\ Len(bb'.ImmutableMem) > Len(bb.ImmutableMem)
    /\ DOMAIN walFiles' = DOMAIN walFiles

\* such a rotation leaves the active WAL, the frozen-WAL queue and the files
WalLeftInPlace ==
    RotationWithoutNewWal =>
        (/\ bb'.ActiveWal = bb.ActiveWal
         /\ bb'.FrozenWALs = bb.FrozenWALs
         /\ walFiles' = walFiles)

\* bytes are appended to no other file than the active WAL
AppendsGoToActiveWal ==
    \A path \in DOMAIN walFiles \cap DOMAIN walFiles' :
        walFiles'[path] # walFiles[path] => path = bb.ActiveWal

(***************************************************************************)
(* C22: rotation survives a WAL open failure: if opening the new WAL fails *)
(* during rotation, the active WAL remains the same instance, nothing is   *)
(* pushed onto the frozen-WAL queue, and later writes are still appended   *)
(* to the old WAL.                                                         *)
(***************************************************************************)
RotationSurvivesWalFailure ==
    /\ [][WalLeftInPlace]_vars
    /\ [][AppendsGoToActiveWal]_vars
    /\ [](bb.ActiveWal \in DOMAIN walFiles)

\* after a rotation that could not open a WAL, a second Put was written to
\* the WAL the engine started with and applied to the new memtable
RotationSurvivesWalFailureWitness ==
    /\ Len(bb.ImmutableMem) = 1
    /\ bb.FrozenWALs = <<>>
    /\ bb.ActiveWal = BaseWalPath
    /\ Len(Replay(walFiles[BaseWalPath]).visited) = 2
    /\ DOMAIN memTables[bb.MemTable].data # {}


\* ---------------------------------------------------------------------
\* Two ingestion workers, rotation and the flush agent: the memtable a
\* worker loaded may be rotated, dumped and dropped before its Put lands.

NumFrozenThreads == 2    \* threads calling SubmitIngestionRequest once

InitFrozen ==
    /\ WalAtRest /\ MergeAtRest /\ UnitAtRest
    /\ EngineInit(SystemConfiguration(TRUE, 18, 2, 1, 2, "sendEntry"),
                  NumFrozenThreads, 1, { AckKey(c) : c \in 1..NumFrozenThreads })

NextFrozen ==
    \/ \E c \in DOMAIN clients :
           SubmitIngestionRequest(c, AckKey(c), AckValue(c, AckPutsMade(c) + 1), 0, FALSE)
    \/ \E w \in DOMAIN workers : runShard(w)
    \/ \E w \in DOMAIN workers : writeWalIfEnabled(w)
    \/ \E w \in DOMAIN workers : loadMemTable(w)
    \/ \E w \in DOMAIN workers : putLoaded(w)
    \/ \E w \in DOMAIN workers : checkSize(w)
    \/ \E w \in DOMAIN workers : checkAndRotate(w)
    \/ waitForFlush
    \/ processFlush
    \/ commitFlush

SpecFrozen == InitFrozen /\ [][NextFrozen]_vars

Queued == { bb.ImmutableMem[i] : i \in 1..Len(bb.ImmutableMem) }

Dumped == IF flushAgent.pc = "commit" THEN {flushAgent.table} ELSE {}

\* C23: a memtable in the immutable queue is not changed by any step, and
\* none is changed after the flush agent has dumped it
FrozenNeverWritten ==
    [][\A m \in (Queued \cup Dumped) \cap DOMAIN memTables' :
           memTables'[m] = memTables[m]]_vars

\* what does hold: a Put lands in the memtable the worker loaded, which was
\* the active one at the load
PutLandsInLoaded ==
    [][\A m \in DOMAIN memTables \cap DOMAIN memTables' :
           memTables'[m] # memTables[m] =>
               \E w \in DOMAIN workers :
                   workers[w].pc = "loaded" /\ workers[w].loaded = m]_vars


Threshold == cfg.MaximumMemtableSizeInBytes

NoDuplicates(q) == \A i, j \in 1..Len(q) : q[i] = q[j] => i = j

\* a step that lengthens the immutable queue appends the active memtable,
\* which is at or above the threshold and not queued yet, and installs a
\* new one
AppendsOnceAtThreshold ==
    Len(bb'.ImmutableMem) > Len(bb.ImmutableMem) =>
        /\ bb'.ImmutableMem = Append(bb.ImmutableMem, bb.MemTable)
        /\ memTables[bb.MemTable].size >= Threshold
        /\ bb.MemTable \notin Queued
        /\ bb'.MemTable \notin DOMAIN memTables

\* C24: rotation is single-flighted: a memtable is appended to the immutable
\* queue once, and only when its Size is at or above the threshold under the
\* engine lock, so no empty memtable is queued
RotationSingleFlight ==
    /\ [][AppendsOnceAtThreshold]_vars
    /\ [](/\ NoDuplicates(bb.ImmutableMem)
          /\ bb.MemTable \notin Queued
          /\ \A m \in Queued : memTables[m].data # EmptyMap)

\* one worker has rotated and another, which saw the old memtable over the
\* threshold, is about to test the new one under the lock
RotationSingleFlightWitness ==
    /\ Len(bb.ImmutableMem) = 1
    /\ memTables[bb.MemTable].size < Threshold
    /\ \E w \in DOMAIN workers : workers[w].pc = "rotate"
    /\ \E w \in DOMAIN workers :
           workers[w].pc = "idle" /\ bb.ImmutableMem[1] \in workers[w].mems


\* the memtables that have been rotated out: every one ever created but the
\* active one
Rotated == { pr[1] : pr \in pairs } \ { bb.MemTable }

Ascending(q) == \A i, j \in 1..Len(q) : i < j => q[i] < q[j]

LevelZeroIds == [i \in 1..Len(bb.SSTables[1]) |-> bb.SSTables[1][i].FileID]

\* the dump is taken from the head of the queue
DumpsHead ==
    (flushAgent.pc = "write" /\ flushAgent'.pc = "commit") =>
        /\ flushAgent.table = bb.ImmutableMem[1]
        /\ sstFiles'[flushAgent'.meta.FileID]
               = SortByKey(memTables[bb.ImmutableMem[1]].data)

\* a commit removes the head, which is the memtable that was dumped, and
\* appends its table at the end of level 0
CommitsHead ==
    Len(bb'.SSTables[1]) > Len(bb.SSTables[1]) =>
        /\ bb.ImmutableMem # <<>>
        /\ bb.ImmutableMem[1] = flushAgent.table
        /\ bb'.ImmutableMem = Tail(bb.ImmutableMem)
        /\ bb'.SSTables[1] = Append(bb.SSTables[1], flushAgent.meta)
        /\ sstFiles[flushAgent.meta.FileID]
               = SortByKey(memTables[flushAgent.table].data)
        /\ \A m \in Queued : flushAgent.table <= m

\* C25: flush is FIFO and exactly-once: memtables are committed in rotation
\* order, a commit removes the memtable whose entries are in the table it
\* appends, every rotated memtable gives one level-0 table, and level 0 is in
\* rotation order, oldest first
FlushFifoExactlyOnce ==
    /\ [][DumpsHead]_vars
    /\ [][CommitsHead]_vars
    /\ [](/\ Ascending(bb.ImmutableMem)
          /\ Ascending(LevelZeroIds)
          /\ Queued \subseteq Rotated
          /\ Len(bb.SSTables[1]) + Len(bb.ImmutableMem) = Cardinality(Rotated))
    /\ \A m \in FlushMemIds : InImmutableQueue(m) ~> (lastFlush.mem = m)

\* two memtables waited in the queue together and both are flushed, the
\* older one first
FlushFifoExactlyOnceWitness ==
    /\ Len(bb.SSTables[1]) = 2
    /\ Len(bb.ImmutableMem) = 1
    /\ flushAgent.pc = "commit"
    /\ sstFiles[bb.SSTables[1][1].FileID] # sstFiles[bb.SSTables[1][2].FileID]
    /\ bb.SSTables[1][1].FileID > bb.ImmutableMem[1]


\* ---------------------------------------------------------------------
\* SpecFlush with SST writes that may fail

NextFlushFail ==
    \/ NextFlush
    \/ processFlushCreateFails
    \/ processFlushWriteFails

SpecFlushFail == InitFlush /\ [][NextFlushFail]_vars /\ FlushFairness

\* the flush agent holds the metadata of a file that lacks records
FlushWriteFailed ==
    /\ flushAgent.pc = "commit"
    /\ sstFiles[flushAgent.meta.FileID] # SortByKey(memTables[flushAgent.table].data)

FlushCreateFailed == flushAgent.pc = "write" /\ flushAgent'.pc = "wait"

FlushFrame ==
    /\ bb'.ImmutableMem = bb.ImmutableMem
    /\ bb'.SSTables = bb.SSTables
    /\ bb'.FrozenWALs = bb.FrozenWALs
    /\ walFiles' = walFiles

\* C26: a flush whose SST write failed leaves the immutable queue, level 0,
\* the frozen WALs and the WAL files as they were
FailedFlushChangesNothing ==
    [][((FlushWriteFailed /\ flushAgent'.pc # "commit") \/ FlushCreateFailed)
           => FlushFrame]_vars

\* what holds: a failed os.Create changes nothing, and the same memtable is
\* taken again
CreateFailureChangesNothing ==
    /\ [][FlushCreateFailed => (FlushFrame /\ memTables' = memTables)]_vars
    /\ [][(flushAgent.pc = "wait" /\ flushAgent'.pc = "write")
              => flushAgent'.table = bb.ImmutableMem[1]]_vars


\* the tables tryMemory looks at, and what tryDisk finds in level 0
InReadableMemTable(e) ==
    \E m \in {bb.MemTable} \cup Queued :
        e.Key \in DOMAIN memTables[m].data /\ memTables[m].data[e.Key] = e

InLevelZero(e) ==
    \E i \in 1..Len(bb.SSTables[1]) :
        LET f == FindInSSTable(bb.SSTables[1][i], sstFiles, e.Key)
        IN  f.found /\ f.entry = e

\* C27: flush commit is atomic for readers: the entry of an acknowledged Put
\* is at every state in the active memtable, in the immutable queue or in a
\* committed level-0 table
FlushCommitAtomicForReaders ==
    \A k \in DOMAIN acked :
        acked[k] # NoWrite => (InReadableMemTable(acked[k].last) \/ InLevelZero(acked[k].last))


(***************************************************************************)
(* One client thread whose every Put rotates the memtable, the ingestion   *)
(* worker, the flush agent and the compaction agent, whose merge may fail. *)
(***************************************************************************)
MaxCompactPuts == 4     \* Puts the client thread issues, each one a rotation

InitCompact ==
    /\ WalAtRest
    /\ MergeAtRest
    /\ UnitAtRest
    /\ EngineInit(SystemConfiguration(TRUE, 18, 2, 1, 1, "sendEntry"), 1,
                  MaxCompactPuts, ReadKeys)

NextCompact ==
    \/ \E c \in DOMAIN clients, k \in ReadKeys :
           SubmitIngestionRequest(c, k, FlushValue(c), 0, FALSE)
    \/ \E w \in DOMAIN workers : WorkerStep(w)
    \/ FlushStep
    \/ CompactionStep
    \/ executeCompactionFails

SpecCompact == InitCompact /\ [][NextCompact]_vars

Captured == { compactionAgent.tables[i] : i \in 1..Len(compactionAgent.tables) }

LevelOneIds == [i \in 1..Len(bb.SSTables[2]) |-> bb.SSTables[2][i].FileID]

MergeFailed == compactionAgent.pc = "merge" /\ compactionAgent'.err = "merge"

\* the error branch: level 0 is the captured tables followed by what was
\* flushed since, level 1 and the files are as they were
RestoresLevelZero ==
    MergeFailed =>
        /\ bb'.SSTables[1] = compactionAgent.tables \o bb.SSTables[1]
        /\ bb'.SSTables[2] = bb.SSTables[2]
        /\ sstFiles' = sstFiles
        /\ \A t \in Captured : t.FileID \in DOMAIN sstFiles'

CompactionCommitted == compactionAgent.pc = "commit" /\ compactionAgent'.pc = "idle"

\* the success branch
CommitEffect ==
    CompactionCommitted =>
        /\ bb'.SSTables[1] = bb.SSTables[1]
        /\ \A i \in 1..Len(bb'.SSTables[1]) : bb'.SSTables[1][i] \notin Captured
        /\ bb'.SSTables[2] = Append(bb.SSTables[2], compactionAgent.meta)
        /\ DOMAIN sstFiles' = DOMAIN sstFiles \ { t.FileID : t \in Captured }
        /\ \A f \in DOMAIN sstFiles' : sstFiles'[f] = sstFiles[f]
        /\ compactionAgent.meta.FileID \in DOMAIN sstFiles'

\* C29: effect of a successful compaction: the captured tables are gone from
\* level 0 and their files removed, one new table is at the end of level 1
\* with the earlier ones unchanged, and the tables flushed during the merge
\* are still in level 0 in flush order
SuccessfulCompactionEffect ==
    /\ [][CommitEffect]_vars
    /\ [](/\ Ascending(LevelZeroIds)
          /\ Ascending(LevelOneIds)
          /\ \A i \in 1..Len(bb.SSTables[1]) : bb.SSTables[1][i] \notin Captured
          /\ (compactionAgent.pc = "idle" =>
                 \A L \in 1..2 : \A i \in 1..Len(bb.SSTables[L]) :
                     bb.SSTables[L][i].FileID \in DOMAIN sstFiles))

\* a compaction has committed while a table written before the merged file,
\* and committed during the merge, stays in level 0
SuccessfulCompactionEffectWitness ==
    /\ compactionAgent.pc = "idle"
    /\ compactionAgent.err = "nil"
    /\ Len(bb.SSTables[2]) = 1
    /\ Len(bb.SSTables[1]) = 1
    /\ bb.SSTables[1][1].FileID < bb.SSTables[2][1].FileID


(***************************************************************************)
(* A writer thread and a reader thread on one key, with the ingestion      *)
(* worker and the flush agent; every Put carries a value of its own.       *)
(***************************************************************************)
MaxStaleOps == 2     \* Puts of the writer thread, Gets of the reader thread

InitStale ==
    /\ WalAtRest
    /\ MergeAtRest
    /\ UnitAtRest
    /\ EngineInit(SystemConfiguration(TRUE, 18, 2, 1, 1, "sendEntry"), 2,
                  MaxStaleOps, ReadKeys)

NextStale ==
    \* thread 1 writes, thread 2 reads
    \/ \E k \in ReadKeys : SubmitIngestionRequest(1, k, FlushValue(1), 0, FALSE)
    \/ \E k \in ReadKeys : HandleGetRequest(2, k)
    \/ GetStep(2)
    \/ \E w \in DOMAIN workers : WorkerStep(w)
    \/ FlushStep

SpecStale == InitStale /\ [][NextStale]_vars

\* tryCache answers the Get of thread c in this step
CacheHit(c) ==
    /\ clients[c].pc = "idle"
    /\ clients'[c].pc = "idle"
    /\ clients'[c].left < clients[c].left
    /\ clients'[c].served.src = "cache"

\* no request is in progress: every Put issued is acknowledged and every Get
\* that started has returned
Quiescent == \A c \in DOMAIN clients : clients[c].pc = "idle"

\* C30: the LRU serves no stale value: a Get that starts when the last Put of
\* its key is acknowledged and every earlier Get has returned, and that is
\* answered by the cache, returns the value of that Put
CacheNeverStale ==
    [][\A c \in DOMAIN clients :
           (CacheHit(c) /\ Quiescent /\ acked[clients'[c].op.key] # NoWrite) =>
               LET last == acked[clients'[c].op.key].last
               IN  ~last.IsDeleted /\ clients'[c].served.value = last.Value]_vars

\* what holds: the value the cache serves was the value of an entry of the
\* key that some Put applied
CacheServesWrittenValue ==
    [][\A c \in DOMAIN clients :
           CacheHit(c) =>
               \E j \in 1..MaxStaleOps : clients'[c].served.value = <<48 + j>>]_vars


(***************************************************************************)
(* C31: newest version wins across layers: after any sequence of           *)
(* acknowledged writes, rotations, flushes and compactions a Get is        *)
(* answered as a plain map updated by those writes in order would answer:  *)
(* the value of the last Put of the key, not-found after a Delete or when  *)
(* the key was never written (entries without expiry).                     *)
(***************************************************************************)
AnswersLikePlainMap ==
    \A c \in DOMAIN clients :
        LET last == acked[clients[c].op.key].last
        IN  (GotAnswer(c) /\ last.ExpiryTimestamp = 0) =>
                IF last = NoEntry \/ last.IsDeleted
                THEN ~clients[c].served.ok
                ELSE clients[c].served.ok /\ clients[c].served.value = last.Value


\* the tables listed in the levels of the engine state
ListedTables ==
    UNION { { bb.SSTables[L][i] : i \in 1..Len(bb.SSTables[L]) } : L \in 1..NumLevels }

\* C32: the bloom filter never hides a stored key: for every table listed in
\* the engine state, and every table a compaction has taken and may put
\* back, the filter holds (FileID, key) for every key of its index
BloomCoversListed ==
    \A t \in ListedTables \cup Captured :
        \A k \in t.Index : <<t.FileID, k>> \in bb.BloomFilter

\* a flushed table in level 0 and a merged table in level 1, both with keys
BloomCoversListedWitness ==
    /\ Len(bb.SSTables[1]) > 0
    /\ Len(bb.SSTables[2]) > 0
    /\ \A t \in ListedTables : t.Index # {}


\* the steps that are critical sections of bb.Mutex taken for writing:
\* checkAndRotate, commitFlush, and the locked end of executeCompaction
UnderEngineLock ==
    \/ \E w \in DOMAIN workers : workers[w].pc = "rotate" /\ workers'[w].pc # "rotate"
    \/ flushAgent.pc = "commit" /\ flushAgent'.pc # "commit"
    \/ compactionAgent.pc = "commit" /\ compactionAgent'.pc = "idle"
    \/ MergeFailed

\* no file is created or unlinked
NoFileOps ==
    /\ DOMAIN walFiles' = DOMAIN walFiles
    /\ DOMAIN sstFiles' = DOMAIN sstFiles

\* C33: no agent holds the engine lock across disk I/O: no critical section
\* of the flush agent, the compaction agent or the rotation path creates,
\* opens or unlinks a file
NoIoUnderEngineLock == [][UnderEngineLock => NoFileOps]_vars

\* what holds: the SST files are created and written outside the lock
SstWritesOutsideLock ==
    [][(\E f \in DOMAIN sstFiles' : f \notin DOMAIN sstFiles) => ~UnderEngineLock]_vars


(***************************************************************************)
(* One client thread whose WAL writes may fail part-way, a crash, and the  *)
(* opening of the engine by either version of main.                        *)
(***************************************************************************)
MaxOpenPuts == 2     \* Puts the client thread issues

InitOpen ==
    /\ WalAtRest
    /\ MergeAtRest
    /\ UnitAtRest
    /\ EngineInit(SystemConfiguration(TRUE, 1048576, 2, 1, 1, "sendEntry"), 1,
                  MaxOpenPuts, ReadKeys)

NextOpen ==
    \/ \E c \in DOMAIN clients, k \in ReadKeys :
           SubmitIngestionRequest(c, k, FlushValue(c), 0, FALSE)
    \/ \E w \in DOMAIN workers : runShard(w)
    \/ \E w \in DOMAIN workers : writeWalIfEnabled(w)
    \/ \E w \in DOMAIN workers : writeWalFails(w)
    \/ \E w \in DOMAIN workers : applyToMemTable(w)
    \/ \E w \in DOMAIN workers : checkSize(w)
    \/ Crash(MaxCrashes)
    \/ Recover
    \/ RecoverRun

SpecOpen == InitOpen /\ [][NextOpen]_vars

\* the process is started on a WAL whose valid prefix is followed by a
\* corrupt tail
OpensOnCorruptTail ==
    /\ ~up
    /\ up' \/ openErr' # openErr
    /\ BaseWalPath \in DOMAIN walFiles
    /\ Replay(walFiles[BaseWalPath]).err # "nil"

PrefixReplayed ==
    memTables'[bb'.MemTable]
        = PutAll(NewMemoryTable, Replay(walFiles[BaseWalPath]).visited)

\* C34: opening the engine tolerates a corrupt WAL tail: the opening
\* succeeds, the active memtable holds the records of the valid prefix, and
\* the agents run
OpenToleratesCorruptTail ==
    [][OpensOnCorruptTail =>
          (up' /\ openErr' = "nil" /\ PrefixReplayed
              /\ flushAgent'.pc = "wait" /\ compactionAgent'.pc = "idle")]_vars

\* what holds: whenever the engine comes up, its memtable holds the valid
\* prefix
UpWithPrefix == [][(OpensOnCorruptTail /\ up') => PrefixReplayed]_vars


(***************************************************************************)
(* Put calls made by several goroutines on one ShardedMemoryTable.  A call *)
(* is cut where another goroutine can see the counter in between: Size()   *)
(* reads the counters with atomic loads and takes no lock.  The file holds *)
(* two definitions of the table: one with a counter per shard, updated     *)
(* under the shard lock, and one with a single totalSize, whose second     *)
(* update comes after the shard lock is released.                          *)
(***************************************************************************)
NumPutGoroutines == 2
MaxConcurrentPuts == 3

ConcurrentValues == { <<>>, <<49, 50>> }

NoPut == [pc |-> "idle", entry |-> NoEntry]

InitMemShards ==
    /\ pTable = NewShardedMemoryTable
    /\ pPuts = 0
    /\ pThreads = [g \in 1..NumPutGoroutines |-> NoPut]
    /\ pTotalSize = 0
    /\ WalAtRest
    /\ MergeAtRest
    /\ BloomUnitAtRest
    /\ SstUnitAtRest
    /\ LruUnitAtRest
    /\ EngineAtRest
    /\ OpenAtRest
    /\ ReplyAtRest
    /\ DrainAtRest

InitMemTotal == InitMemShards

ShardLocked(s) ==
    \E g \in DOMAIN pThreads :
        pThreads[g].pc = "locked" /\ getShardID(pThreads[g].entry.Key) = s

OldSize(shard, key) ==
    IF key \in DOMAIN shard.data THEN EntrySize(shard.data[key]) ELSE 0

\* Put of the table with per-shard counters, up to the store: Lock, the
\* subtraction of the old entry's size, the store
PutShardStore(g, key, value, expiry, isDeleted) ==
    /\ pPuts < MaxConcurrentPuts
    /\ pThreads[g].pc = "idle"
    /\ ~ShardLocked(getShardID(key))
    /\ pTable' = [pTable EXCEPT ![getShardID(key)] =
                     [data |-> MapPut(@.data, key, Entry(key, value, expiry, isDeleted)),
                      size |-> @.size - OldSize(@, key)]]
    /\ pThreads' = [pThreads EXCEPT ![g] =
                       [pc |-> "locked", entry |-> Entry(key, value, expiry, isDeleted)]]
    /\ pPuts' = pPuts + 1
    /\ UNCHANGED pTotalSize
    /\ UNCHANGED <<walVars, mergeVars, openVars, replyVars, drainVars, bloomUnitVars, sstUnitVars, lruUnitVars,
                   engineVars>>

\* ... and its end: shard.size.Add(entrySize), then the deferred Unlock
PutShardAdd(g) ==
    /\ pThreads[g].pc = "locked"
    /\ pTable' = [pTable EXCEPT ![getShardID(pThreads[g].entry.Key)].size =
                     @ + EntrySize(pThreads[g].entry)]
    /\ pThreads' = [pThreads EXCEPT ![g] = NoPut]
    /\ UNCHANGED <<pPuts, pTotalSize>>
    /\ UNCHANGED <<walVars, mergeVars, openVars, replyVars, drainVars, bloomUnitVars, sstUnitVars, lruUnitVars,
                   engineVars>>

\* Put of the table with one totalSize, up to Unlock: Lock, the subtraction
\* of the old entry's size from totalSize, the store, Unlock
PutTotalStore(g, key, value, expiry, isDeleted) ==
    /\ pPuts < MaxConcurrentPuts
    /\ pThreads[g].pc = "idle"
    /\ pTotalSize' = pTotalSize - OldSize(pTable[getShardID(key)], key)
    /\ pTable' = [pTable EXCEPT ![getShardID(key)].data =
                     MapPut(@, key, Entry(key, value, expiry, isDeleted))]
    /\ pThreads' = [pThreads EXCEPT ![g] =
                       [pc |-> "unlocked", entry |-> Entry(key, value, expiry, isDeleted)]]
    /\ pPuts' = pPuts + 1
    /\ UNCHANGED <<walVars, mergeVars, openVars, replyVars, drainVars, bloomUnitVars, sstUnitVars, lruUnitVars,
                   engineVars>>

\* ... and its end: atomic.AddInt64(&mt.totalSize, entrySize)
PutTotalAdd(g) ==
    /\ pThreads[g].pc = "unlocked"
    /\ pTotalSize' = pTotalSize + EntrySize(pThreads[g].entry)
    /\ pThreads' = [pThreads EXCEPT ![g] = NoPut]
    /\ UNCHANGED <<pTable, pPuts>>
    /\ UNCHANGED <<walVars, mergeVars, openVars, replyVars, drainVars, bloomUnitVars, sstUnitVars, lruUnitVars,
                   engineVars>>

NextMemShards ==
    \/ \E g \in DOMAIN pThreads, k \in MemKeys, v \in ConcurrentValues :
           PutShardStore(g, k, v, 0, FALSE)
    \/ \E g \in DOMAIN pThreads : PutShardAdd(g)

NextMemTotal ==
    \/ \E g \in DOMAIN pThreads, k \in MemKeys, v \in ConcurrentValues :
           PutTotalStore(g, k, v, 0, FALSE)
    \/ \E g \in DOMAIN pThreads : PutTotalAdd(g)

SpecMemShards == InitMemShards /\ [][NextMemShards]_vars

SpecMemTotal == InitMemTotal /\ [][NextMemTotal]_vars

\* C35: memtable Size is never negative, also while several Puts are in
\* progress
SizeNeverNegative == Size(pTable) >= 0 /\ pTotalSize >= 0

\* what holds for the single counter: with no Put in progress it is the
\* sum of the sizes of the entries held
TotalSizeAtRest ==
    (\A g \in DOMAIN pThreads : pThreads[g].pc = "idle")
        => pTotalSize = SumOfSizes(TableEntries(pTable))


(***************************************************************************)
(* SubmitIngestionRequest with its reply channel told apart from the       *)
(* caller: the channel comes from respChanPool (one of those it holds, or  *)
(* a new one of capacity 1), travels in the request, is sent to by         *)
(* notifySuccess or notifyErrors, is received from by the caller and put   *)
(* back.  One shard worker, so that requests meet in one batch; every Put  *)
(* fills the memtable; WriteBatch may fail.                                *)
(***************************************************************************)
ReplyThreads == 1..2    \* the threads calling SubmitIngestionRequest
ReplyWorkers == 0..0    \* the shard workers
MaxReplyPuts == 1       \* calls each thread makes

NoChannel == 0
RespChanCapacity == 1

PooledReq(c, k, v, ttl, del, ch) ==
    [client |-> c, Key |-> k, Val |-> v, TTL |-> ttl, IsDeleted |-> del,
     ResponseChannel |-> ch]

InitReply ==
    /\ WalAtRest
    /\ MergeAtRest
    /\ UnitAtRest
    /\ EngineInit(SystemConfiguration(TRUE, 18, 2, 1, 1, "sendEntry"),
                  Cardinality(ReplyThreads), MaxReplyPuts,
                  { AckKey(c) : c \in ReplyThreads })

engineFrame ==
    <<walVars, mergeVars, memUnitVars, bloomUnitVars, sstUnitVars, lruUnitVars,
      openVars, drainVars, batchVars>>

\* SubmitIngestionRequest up to the send on the SingleQueue
SubmitAndWait(c, k, v, ttl, del) ==
    /\ up
    /\ clients[c].pc = "idle"
    /\ clients[c].left > 0
    /\ \E ch \in respChanPool \cup {Len(respChans) + 1} :
           /\ respChans' = IF ch \in respChanPool THEN respChans
                           ELSE Append(respChans, <<>>)
           /\ respChanPool' = respChanPool \ {ch}
           /\ respChanHeld' = MapPut(respChanHeld, c, ch)
           /\ queues' = [queues EXCEPT ![ShardOf(k, cfg.MaximumCpuCount)] =
                            Append(@, PooledReq(c, k, v, ttl, del, ch))]
    /\ clients' = [clients EXCEPT ![c] =
           [@ EXCEPT !.pc = "put", !.left = @ - 1, !.prev = clients[c].op,
                     !.op = [kind |-> IF del THEN "delete" ELSE "put",
                             key |-> k, ok |-> FALSE],
                     !.served = NoServed]]
    /\ UNCHANGED <<cfg, now, nextId, up, crashes, bb, memTables, walFiles, sstFiles,
                   workers, flushAgent, compactionAgent, acked, pairs, lastFlush,
                   engineFrame>>

\* ... and from the receive on: the reply is taken, the channel put back
ReceiveReply(c) ==
    /\ up
    /\ clients[c].pc = "put"
    /\ c \in DOMAIN respChanHeld
    /\ respChans[respChanHeld[c]] # <<>>
    /\ clients' = [clients EXCEPT ![c] =
           [@ EXCEPT !.pc = "idle", !.op.ok = (Head(respChans[respChanHeld[c]]) = "nil")]]
    /\ respChans' = [respChans EXCEPT ![respChanHeld[c]] = Tail(@)]
    /\ respChanPool' = respChanPool \cup {respChanHeld[c]}
    /\ respChanHeld' = MapRemove(respChanHeld, c)
    /\ UNCHANGED <<cfg, now, nextId, up, crashes, bb, memTables, walFiles, sstFiles,
                   queues, workers, flushAgent, compactionAgent, acked, pairs,
                   lastFlush, engineFrame>>

\* a notify loop that sends to the first request of the batch only
SentToFirst(chans, batch, err) ==
    IF batch = <<>> THEN chans
    ELSE [chans EXCEPT ![Head(batch).ResponseChannel] = Append(@, err)]

\* the loop of notifySuccess and notifyErrors: one send per request
RECURSIVE Sent(_, _, _)
Sent(chans, batch, err) ==
    IF batch = <<>> THEN chans
    ELSE Sent(IF Head(batch).ResponseChannel = NoChannel THEN chans
              ELSE [chans EXCEPT ![Head(batch).ResponseChannel] = Append(@, err)],
              Tail(batch), err)

\* no send of the loop blocks
CanSend(batch, err) ==
    \A ch \in DOMAIN respChans : Len(Sent(respChans, batch, err)[ch]) <= RespChanCapacity

\* notifySuccess and the return to the select of runShard
NotifiedOnChannel(w) ==
    /\ CanSend(workers[w].batch, "nil")
    /\ respChans' = Sent(respChans, workers[w].batch, "nil")
    /\ acked' = Acknowledged(acked, workers[w].entries)
    /\ workers' = [workers EXCEPT ![w] =
           [@ EXCEPT !.pc = "idle", !.batch = <<>>, !.entries = <<>>, !.i = 0]]
    /\ UNCHANGED <<clients, respChanPool, respChanHeld>>

checkSizeThenNotify(w) ==
    /\ up
    /\ workers[w].pc = "check"
    /\ IF memTables[bb.MemTable].size >= cfg.MaximumMemtableSizeInBytes
       THEN /\ workers' = [workers EXCEPT ![w].pc = "rotate"]
            /\ UNCHANGED <<clients, acked, replyVars>>
       ELSE NotifiedOnChannel(w)
    /\ UNCHANGED <<cfg, now, nextId, up, crashes, bb, memTables, walFiles, sstFiles,
                   queues, flushAgent, compactionAgent, pairs, lastFlush,
                   engineFrame>>

checkAndRotateThenNotify(w) ==
    /\ up
    /\ workers[w].pc = "rotate"
    /\ IF memTables[bb.MemTable].size >= cfg.MaximumMemtableSizeInBytes
       THEN rotateMemTable(TRUE)
       ELSE UNCHANGED <<memTables, bb, walFiles, pairs, nextId, flushAgent>>
    /\ NotifiedOnChannel(w)
    /\ UNCHANGED <<cfg, now, up, crashes, sstFiles, queues,
                   compactionAgent, lastFlush, engineFrame>>

\* writeWalIfEnabled with WriteBatch returning an error: notifyErrors, and
\* processBatch returns
writeWalFailsThenNotify(w) ==
    /\ up
    /\ workers[w].pc = "wal"
    /\ cfg.EnableDiskDurability
    /\ bb.ActiveWal \in DOMAIN walFiles
    /\ \E n \in WrittenBeforeError(EncodeBatch(workers[w].entries)) :
           walFiles' = [walFiles EXCEPT ![bb.ActiveWal] =
                           @ \o SubSeq(EncodeBatch(workers[w].entries), 1, n)]
    /\ CanSend(workers[w].batch, "io")
    /\ respChans' = Sent(respChans, workers[w].batch, "io")
    /\ acked' = Unsure(acked, workers[w].batch)
    /\ workers' = [workers EXCEPT ![w] =
           [@ EXCEPT !.pc = "idle", !.batch = <<>>, !.entries = <<>>, !.i = 0,
                     !.err = "io"]]
    /\ UNCHANGED <<cfg, now, nextId, up, crashes, bb, memTables, sstFiles, queues,
                   clients, flushAgent, compactionAgent, pairs, lastFlush,
                   respChanPool, respChanHeld, engineFrame>>

ReplyPutsMade(c) == MaxReplyPuts - clients[c].left

NextReply ==
    \/ \E c \in DOMAIN clients :
           SubmitAndWait(c, AckKey(c), AckValue(c, ReplyPutsMade(c) + 1), 0, FALSE)
    \/ \E c \in DOMAIN clients : ReceiveReply(c)
    \/ \E w \in DOMAIN workers : runShard(w)
    \/ \E w \in DOMAIN workers : writeWalIfEnabled(w)
    \/ \E w \in DOMAIN workers : writeWalFailsThenNotify(w)
    \/ \E w \in DOMAIN workers : applyToMemTable(w)
    \/ \E w \in DOMAIN workers : checkSizeThenNotify(w)
    \/ \E w \in DOMAIN workers : checkAndRotateThenNotify(w)

\* the shard workers and the callers keep running
ReplyFairness ==
    /\ \A w \in ReplyWorkers :
           /\ WF_vars(runShard(w))
           /\ WF_vars(writeWalIfEnabled(w) \/ writeWalFailsThenNotify(w))
           /\ WF_vars(applyToMemTable(w))
           /\ WF_vars(checkSizeThenNotify(w))
           /\ WF_vars(checkAndRotateThenNotify(w))
    /\ \A c \in ReplyThreads : WF_vars(ReceiveReply(c))

SpecReply == InitReply /\ [][NextReply]_vars /\ ReplyFairness

\* where the request of a blocked caller is: queued, in the worker's batch,
\* or answered on its channel
RequestsQueued(c) ==
    { <<s, i>> \in UNION { {s} \X (1..Len(queues[s])) : s \in DOMAIN queues } :
        queues[s][i].client = c }

RequestsInBatch(c) ==
    { <<w, i>> \in UNION { {w} \X (1..Len(workers[w].batch)) : w \in DOMAIN workers } :
        workers[w].batch[i].client = c }

PendingFor(c) ==
    Cardinality(RequestsQueued(c)) + Cardinality(RequestsInBatch(c))
        + Len(respChans[respChanHeld[c]])

OneAnswerEach ==
    /\ \A c \in DOMAIN clients :
           IF clients[c].pc = "put"
           THEN c \in DOMAIN respChanHeld /\ PendingFor(c) = 1
           ELSE c \notin DOMAIN respChanHeld
                    /\ RequestsQueued(c) = {} /\ RequestsInBatch(c) = {}
    /\ \A ch \in respChanPool : respChans[ch] = <<>>
    /\ \A c, d \in DOMAIN respChanHeld : c # d => respChanHeld[c] # respChanHeld[d]
    /\ \A c \in DOMAIN respChanHeld : respChanHeld[c] \notin respChanPool

\* C36: every ingestion request is answered exactly once: the caller gets
\* one reply and returns, no request is dropped, answered twice or left
\* blocked while its worker runs, and the channel is empty when pooled
AnsweredExactlyOnce ==
    /\ []OneAnswerEach
    /\ \A c \in ReplyThreads :
           (clients[c].pc = "put") ~> (clients[c].pc = "idle")

\* every call has returned, one with an error and one with success, on a
\* channel that was used before
AnsweredExactlyOnceWitness ==
    /\ \A c \in DOMAIN clients : clients[c].pc = "idle" /\ clients[c].left = 0
    /\ \E c \in DOMAIN clients : clients[c].op.ok
    /\ \E c \in DOMAIN clients : ~clients[c].op.ok
    /\ Len(respChans) < Cardinality(ReplyThreads) * MaxReplyPuts
    /\ respChanPool = 1..Len(respChans)


\* the tables an engine state lists, over all levels
TablesOf(b) ==
    UNION { { b.SSTables[L][i] : i \in 1..Len(b.SSTables[L]) } : L \in 1..NumLevels }

ListedHaveFiles ==
    \A t \in TablesOf(bb) \cup Captured : t.FileID \in DOMAIN sstFiles

\* a step that unlinks SST files unlinks tables no level lists any more, and
\* the merged table is then in level 1
UnlinksAfterCommit ==
    (DOMAIN sstFiles' # DOMAIN sstFiles) =>
        /\ DOMAIN sstFiles' \subseteq DOMAIN sstFiles
        /\ \A t \in TablesOf(bb') : t.FileID \in DOMAIN sstFiles'
        /\ DOMAIN sstFiles \ DOMAIN sstFiles' = { t.FileID : t \in Captured }
        /\ compactionAgent.meta \in { bb'.SSTables[2][i] : i \in 1..Len(bb'.SSTables[2]) }

\* C37: every SST listed in engine state has its file on disk: a compaction
\* unlinks an input only once it is out of level 0 and the merged table is
\* in level 1, and a table put back after a failed merge has its file
ListedTablesOnDisk ==
    /\ []ListedHaveFiles
    /\ [][UnlinksAfterCommit \/ DOMAIN sstFiles \subseteq DOMAIN sstFiles']_vars

\* a merge has failed and its tables are back in level 0, and an earlier
\* merge has committed and unlinked its inputs
ListedTablesOnDiskWitness ==
    /\ compactionAgent.pc = "idle"
    /\ compactionAgent.err = "merge"
    /\ Len(bb.SSTables[1]) >= 2
    /\ Len(bb.SSTables[2]) = 1
    /\ Cardinality(DOMAIN sstFiles) = Len(bb.SSTables[1]) + 1


(***************************************************************************)
(* One LruCache with its two structures told apart: evictionList, the list *)
(* of entries from most to least recently used, and itemsMap, here the set *)
(* of keys that map to an element.  Capacities 0, 1 and 2.                 *)
(***************************************************************************)
MapCapacities == { 0, 1, 2 }

NewLruCache(capacity) ==
    [CapacityCount |-> capacity, evictionList |-> <<>>, itemsMap |-> {}]

MoveToFront(l, k) ==
    LET i == CacheIndex(l, k) IN IF i = 0 THEN l ELSE <<l[i]>> \o DropAt(l, i)

\* an Insert whose eviction leaves the key of the evicted element mapped
CacheInsertKeepsMapped(c, k, v) ==
    IF k \in c.itemsMap
    THEN [c EXCEPT !.evictionList =
             <<[key |-> k, value |-> v, exp |-> 0]>> \o Tail(MoveToFront(@, k))]
    ELSE LET pushed == <<[key |-> k, value |-> v, exp |-> 0]>> \o c.evictionList
         IN  IF Len(pushed) > c.CapacityCount
             THEN [c EXCEPT !.evictionList = SubSeq(pushed, 1, Len(pushed) - 1),
                            !.itemsMap = @ \cup {k}]
             ELSE [c EXCEPT !.evictionList = pushed, !.itemsMap = @ \cup {k}]

\* Insert: a mapped key is moved to the front and given the value; a new
\* one is pushed and mapped, and when the list is longer than the capacity
\* the element at the back is unlinked and its key unmapped
CacheInsert(c, k, v) ==
    IF k \in c.itemsMap
    THEN [c EXCEPT !.evictionList =
             <<[key |-> k, value |-> v, exp |-> 0]>> \o Tail(MoveToFront(@, k))]
    ELSE LET pushed == <<[key |-> k, value |-> v, exp |-> 0]>> \o c.evictionList
         IN  IF Len(pushed) > c.CapacityCount
             THEN [c EXCEPT !.evictionList = SubSeq(pushed, 1, Len(pushed) - 1),
                            !.itemsMap = (@ \cup {k}) \ {pushed[Len(pushed)].key}]
             ELSE [c EXCEPT !.evictionList = pushed, !.itemsMap = @ \cup {k}]

CacheRetrieve(c, k) ==
    IF k \in c.itemsMap THEN [c EXCEPT !.evictionList = MoveToFront(@, k)] ELSE c

\* RemoveFromCache: the element of the key is unlinked and the key unmapped
CacheRemove(c, k) ==
    IF k \in c.itemsMap
    THEN [c EXCEPT !.evictionList = Others(@, k), !.itemsMap = @ \ {k}]
    ELSE c

InitLruMap ==
    /\ \E cap \in MapCapacities : lCache = NewLruCache(cap)
    /\ lUsed = <<>>
    /\ lClock = 0
    /\ lLast = [op |-> "NewLruCache", key |-> <<>>, value |-> <<>>, hit |-> FALSE,
                before |-> <<>>, used |-> <<>>]
    /\ WalAtRest
    /\ MergeAtRest
    /\ MemUnitAtRest
    /\ BloomUnitAtRest
    /\ SstUnitAtRest
    /\ EngineAtRest
    /\ OpenAtRest
    /\ ReplyAtRest
    /\ DrainAtRest

CacheCall(op, k, after) ==
    /\ lClock < MaxLruOps
    /\ lCache' = after
    /\ lClock' = lClock + 1
    /\ lLast' = [lLast EXCEPT !.op = op, !.key = k]
    /\ UNCHANGED <<lUsed, walVars, mergeVars, openVars, replyVars, drainVars, memUnitVars,
                   bloomUnitVars, sstUnitVars, engineVars>>

MInsert(k, v) == CacheCall("Insert", k, CacheInsert(lCache, k, v))

MRetrieve(k) == CacheCall("Retrieve", k, CacheRetrieve(lCache, k))

MRemove(k) == CacheCall("Remove", k, CacheRemove(lCache, k))

NextLruMap ==
    \/ \E k \in LruKeys, v \in LruValues : MInsert(k, v)
    \/ \E k \in LruKeys : MRetrieve(k)
    \/ \E k \in LruKeys : MRemove(k)

SpecLruMap == InitLruMap /\ [][NextLruMap]_vars

\* C38: LRU capacity bound: the cache holds at most CapacityCount entries
\* (none when the capacity is 0), the keys of the lookup map are the keys of
\* the recency list, and no key is listed twice
LruCapacityBound ==
    /\ Len(lCache.evictionList) <= lCache.CapacityCount
    /\ lCache.itemsMap = CachedKeys(lCache.evictionList)
    /\ Cardinality(lCache.itemsMap) = Len(lCache.evictionList)

\* a full cache of capacity 2 after an Insert that evicted, a Retrieve and a
\* Remove have been made
LruCapacityBoundWitness ==
    /\ lCache.CapacityCount = 2
    /\ Len(lCache.evictionList) = 2
    /\ lLast.op = "Insert"
    /\ lLast.key \notin { <<97>>, <<98>> }
    /\ lClock = MaxLruOps

\* an Insert into a cache of capacity 0 has been made
ZeroCapacityInsert ==
    lCache.CapacityCount = 0 /\ lLast.op = "Insert" /\ lCache.evictionList = <<>>


(***************************************************************************)
(* One call of drainSingleQueue, as TestHelper_DrainQueue makes it: the    *)
(* queue holds some requests (fewer than, as many as, or more than the     *)
(* limit), the batch is empty or holds the request runShard received.     *)
(* Other goroutines may send to the queue while the call runs; the caller  *)
(* is the only receiver.  Requests carry a serial number where the code    *)
(* has a pointer: 1.. for those queued at the start, 0 for the one in the  *)
(* batch, negative for those sent later.                                   *)
(***************************************************************************)
MaxOverLimit == 2     \* requests queued beyond the limit
MaxLateSends == 2     \* sends made while the call runs

QueuedRequest(j) == IngestReq(j, <<>>, <<>>, 0, FALSE)

InitDrain ==
    /\ \E n \in 0..(DrainLimit + MaxOverLimit) : dQueue = [j \in 1..n |-> QueuedRequest(j)]
    /\ dBatch \in { <<>>, <<QueuedRequest(0)>> }
    /\ dBatch0 = dBatch
    /\ dCount = 0
    /\ dPc = "call"
    /\ dQueued = <<>>
    /\ dSent = 0
    /\ WalAtRest
    /\ MergeAtRest
    /\ MemUnitAtRest
    /\ BloomUnitAtRest
    /\ SstUnitAtRest
    /\ LruUnitAtRest
    /\ EngineAtRest
    /\ OpenAtRest
    /\ ReplyAtRest

drainFrame ==
    <<walVars, mergeVars, memUnitVars, bloomUnitVars, sstUnitVars, lruUnitVars,
      openVars, replyVars, engineVars>>

\* a count that is not capped
DrainCountUncapped(n) == n

\* count := len(queue), capped at the limit
DrainCount(n) == IF n > DrainLimit THEN DrainLimit ELSE n

drainSnapshot ==
    /\ dPc = "call"
    /\ dCount' = DrainCount(Len(dQueue))
    /\ dQueued' = dQueue
    /\ dPc' = IF DrainCount(Len(dQueue)) = 0 THEN "returned" ELSE "loop"
    /\ UNCHANGED <<dQueue, dBatch, dBatch0, dSent, drainFrame>>

\* one iteration of the loop: a receive, which waits while the queue is
\* empty, and the append
drainReceive ==
    /\ dPc = "loop"
    /\ dQueue # <<>>
    /\ dBatch' = Append(dBatch, Head(dQueue))
    /\ dQueue' = Tail(dQueue)
    /\ dCount' = dCount - 1
    /\ dPc' = IF dCount = 1 THEN "returned" ELSE "loop"
    /\ UNCHANGED <<dQueued, dBatch0, dSent, drainFrame>>

\* SubmitIngestionRequest of another goroutine sends to the queue
lateSend ==
    /\ dSent < MaxLateSends
    /\ dPc # "returned"
    /\ dQueue' = Append(dQueue, QueuedRequest(0 - (dSent + 1)))
    /\ dSent' = dSent + 1
    /\ UNCHANGED <<dBatch, dCount, dPc, dQueued, dBatch0, drainFrame>>

NextDrain == drainSnapshot \/ drainReceive \/ lateSend

SpecDrain == InitDrain /\ [][NextDrain]_vars

\* the requests sent after len(queue) was read, in the order sent
SentLater ==
    LET early == Cardinality({ i \in 1..Len(dQueued) : dQueued[i].client < 0 })
    IN  [j \in 1..(dSent - early) |-> QueuedRequest(0 - (early + j))]

\* C39: bounded, non-blocking drain: the call removes min(n, 100) requests,
\* n the number queued when it is called, appends them to the batch in
\* queue order, leaves the others queued in order, and never waits
DrainBoundedNonBlocking ==
    LET n == Len(dQueued)
        m == IF n < DrainLimit THEN n ELSE DrainLimit
    IN  /\ dPc = "loop" => dQueue # <<>>
        /\ dPc = "returned" =>
               /\ dBatch = dBatch0 \o SubSeq(dQueued, 1, m)
               /\ dQueue = SubSeq(dQueued, m + 1, n) \o SentLater

\* the call has returned from a queue that held more than the limit, with
\* the received request in front of the batch and a request sent meanwhile
DrainBoundedNonBlockingWitness ==
    /\ dPc = "returned"
    /\ Len(dQueued) > DrainLimit
    /\ Len(dBatch) = DrainLimit + 1
    /\ Len(dQueue) > Len(dQueued) - DrainLimit

====
